---- MODULE Spec2Model ----
(***************************************************************************)
(* Model of rollup-plugin-iife-split: the chunk analyzer, the chunk merger *)
(* (shared-into-primary merge, unshared inlining) and the generateBundle   *)
(* hook that drives them.                                                  *)
(*                                                                         *)
(* A chunk's source text is modelled by its syntax tree, reduced to the    *)
(* node kinds the merger consults:                                         *)
(*   imports     sequence of import statements [source, specs]            *)
(*   decls       top-level declarations [name, b]                         *)
(*   uses        identifier uses [name, b]                                *)
(*   nsUses      member accesses `ns.prop` [ns, prop, b]                  *)
(*   exportSpecs specifiers of `export { local as exported }`             *)
(*   reexports   `export { ... } from source` statements                  *)
(*   inlineExp   names declared as `export const/function/class name`     *)
(*   hasDefault  whether the text holds `export default <expr>` (defB: the  *)
(*               identity of that value)                                   *)
(*   sharedObj   entries [key, value] of the appended shared object        *)
(* Identifier names are strings and the rewrites act on them as the code   *)
(* acts on the text.  The field b is the identity of the binding a node    *)
(* declares or denoted before any rewrite; no rewrite reads or changes it. *)
(* An import source or file name is a sequence of path tokens.             *)
(***************************************************************************)
EXTENDS Integers, Sequences, FiniteSets, TLC

\* ------------------------------------------------------------------------
\* Generic helpers
\* ------------------------------------------------------------------------
Range(s) == {s[i] : i \in DOMAIN s}

RECURSIVE SetToSeq(_)
SetToSeq(S) == IF S = {} THEN <<>>
               ELSE LET x == CHOOSE y \in S : TRUE IN <<x>> \o SetToSeq(S \ {x})

MapSeq(s, Op(_)) == [i \in DOMAIN s |-> Op(s[i])]

\* Map.get(k) ?? k over a rename map given as a set of [from, to] pairs
HasKey(m, k) == \E e \in m : e.from = k
Get(m, k) == (CHOOSE e \in m : e.from = k).to
GetOr(m, k, d) == IF HasKey(m, k) THEN Get(m, k) ELSE d
\* Map.set(k, v): a later set overrides an earlier one
MapSet(m, k, v) == {e \in m : e.from # k} \cup {[from |-> k, to |-> v]}

\* String.prototype.includes over token sequences
Includes(hay, needle) ==
  \E i \in 0..(Len(hay) - Len(needle)) :
    \A j \in 1..Len(needle) : hay[i + j] = needle[j]

\* fileName.replace(/\.js$/, '')
StripJs(f) == IF Len(f) > 0 /\ f[Len(f)] = ".js" THEN SubSeq(f, 1, Len(f) - 1) ELSE f

\* !source.startsWith('.') && !source.startsWith('/')
IsExternalSource(source) == Len(source) = 0 \/ source[1] \notin {"./", "../", "/"}

SHARED_CHUNK_NAME == "__shared__"

\* Identity of a binding: the file (or external source) that owns it and its
\* name there ("default" for a default export, "*" for a module namespace)
Binding(src, n) == [src |-> src, n |-> n]
NoBinding == Binding(<<>>, "")

EmptyCode == [imports |-> <<>>, decls |-> {}, uses |-> {}, nsUses |-> {},
              exportSpecs |-> {}, reexports |-> <<>>, inlineExp |-> {},
              hasDefault |-> FALSE, defB |-> NoBinding, sharedObj |-> {}]

\* All specifiers of the import statements of a code, with their source
SpecsOf(code) ==
  {[source |-> code.imports[i].source, spec |-> code.imports[i].specs[j]] :
     <<i, j>> \in {p \in (DOMAIN code.imports) \X (1..4) :
                     p[2] \in DOMAIN code.imports[p[1]].specs}}

\* ------------------------------------------------------------------------
\* chunk-merger: extraction
\* ------------------------------------------------------------------------
extractTopLevelDeclarations(code) == {d.name : d \in code.decls}

extractExternalImportBindings(code) ==
  {s.spec.local : s \in {t \in SpecsOf(code) : IsExternalSource(t.source)}}

\* ExportInfo { exports, hasDefault }
extractExports(code) ==
  [exports |-> {[exportedName |-> n, localName |-> n] : n \in code.inlineExp}
               \cup {[exportedName |-> e.exported, localName |-> e.local] : e \in code.exportSpecs}
               \cup UNION {{[exportedName |-> r.specs[j].exported, localName |-> r.specs[j].local] :
                              j \in DOMAIN r.specs} : r \in Range(code.reexports)},
   hasDefault |-> code.hasDefault]

extractExternalImports(code) ==
  SelectSeq(code.imports, LAMBDA st : IsExternalSource(st.source))

\* ------------------------------------------------------------------------
\* chunk-merger: rewriting
\* ------------------------------------------------------------------------
\* Two bindings of the module scope share a name (the declarations of chunk
\* code are lexical: const, let, class, function of a module)
Redeclares(code) ==
  LET at == {p \in (DOMAIN code.imports) \X (1..4) : p[2] \in DOMAIN code.imports[p[1]].specs}
      L(p) == code.imports[p[1]].specs[p[2]].local
  IN \/ \E p, q \in at : p # q /\ L(p) = L(q)
     \/ \E p \in at, d \in code.decls : L(p) = d.name
     \/ \E d, e \in code.decls : d # e /\ d.name = e.name

\* parse(code) throws on a malformed import statement (bad) and on a
\* redeclaration
Parses(code) == (\A i \in DOMAIN code.imports : ~code.imports[i].bad) /\ ~Redeclares(code)

\* The visitor of renameIdentifiers on one import specifier
RenameSpecifier(spec, renameMap) ==
  IF ~HasKey(renameMap, spec.local) THEN spec
  ELSE IF spec.type = "default"
       THEN [type |-> "named", imported |-> "default", local |-> Get(renameMap, spec.local)]
       ELSE [spec EXCEPT !.local = Get(renameMap, spec.local)]

\* `{ default as x }` written in place of a default specifier is well formed
\* only when the statement has no other specifier
RenameStatement(st, renameMap) ==
  [st EXCEPT !.specs = MapSeq(st.specs, LAMBDA sp : RenameSpecifier(sp, renameMap)),
             !.bad = st.bad \/ (Len(st.specs) > 1 /\
                       \E j \in DOMAIN st.specs :
                          st.specs[j].type = "default" /\ HasKey(renameMap, st.specs[j].local))]

renameIdentifiers(code, renameMap) ==
  IF renameMap = {} THEN code
  ELSE LET R(n) == GetOr(renameMap, n, n) IN
    [code EXCEPT
       !.imports = MapSeq(code.imports, LAMBDA st : RenameStatement(st, renameMap)),
       !.decls = {[d EXCEPT !.name = R(d.name)] : d \in code.decls},
       !.uses = {[u EXCEPT !.name = R(u.name)] : u \in code.uses},
       !.nsUses = {[u EXCEPT !.ns = R(u.ns), !.prop = R(u.prop)] : u \in code.nsUses},
       !.exportSpecs = {[exported |-> R(e.exported), local |-> R(e.local)] : e \in code.exportSpecs},
       !.reexports = MapSeq(code.reexports, LAMBDA r :
                        [r EXCEPT !.specs = MapSeq(r.specs, LAMBDA sp :
                             [exported |-> R(sp.exported), local |-> R(sp.local)])]),
       !.inlineExp = {R(n) : n \in code.inlineExp},
       !.sharedObj = {[key |-> R(e.key), value |-> R(e.value)] : e \in code.sharedObj}]

\* stripExports as it would be if `export default <expr>` were removed without
\* binding its value
stripExportsDroppingDefault(code) ==
  [code EXCEPT
     !.inlineExp = {},
     !.exportSpecs = {},
     !.reexports = <<>>,
     !.hasDefault = FALSE]

stripExports(code) ==
  [code EXCEPT
     !.inlineExp = {},
     !.exportSpecs = {},
     !.reexports = <<>>,
     !.hasDefault = FALSE,
     !.decls = IF code.hasDefault
               THEN code.decls \cup {[name |-> "__shared_default__", b |-> code.defB]}
               ELSE code.decls]

\* ------------------------------------------------------------------------
\* chunk-merger: deduplication of external imports
\* ------------------------------------------------------------------------
\* The specifiers of a sequence of import statements, in text order
RECURSIVE FlattenSpecs(_)
FlattenSpecs(stmts) ==
  IF stmts = <<>> THEN <<>> ELSE Head(stmts).specs \o FlattenSpecs(Tail(stmts))

\* Variant of the specifier comparison that does not compare imported names
SameSpecifierType(a, b) == a.type = b.type

\* "same type and same imported symbol"
SameImportedSymbol(a, b) ==
  a.type = b.type /\ (a.type = "named" => a.imported = b.imported)

\* The first specifier among otherImports (of the same source) that matches
\* spec, as the nested loops with their breaks find it; <<>> if none
FirstMatch(source, spec, otherImports) ==
  LET flat == FlattenSpecs(SelectSeq(otherImports, LAMBDA o : o.source = source))
      hits == {k \in DOMAIN flat : SameImportedSymbol(spec, flat[k])}
  IN IF hits = {} THEN <<>>
     ELSE <<flat[CHOOSE k \in hits : \A m \in hits : k <= m]>>

\* The statement after removal of its duplicated specifiers (<<>>: removed)
DedupeStatement(st, otherImports) ==
  IF ~IsExternalSource(st.source) \/ ~\E k \in DOMAIN otherImports : otherImports[k].source = st.source
  THEN <<st>>
  ELSE LET keep == SelectSeq(st.specs, LAMBDA sp : FirstMatch(st.source, sp, otherImports) = <<>>)
       IN IF Len(keep) = 0 THEN <<>>
          ELSE IF Len(keep) < Len(st.specs)
               THEN <<[source |-> st.source,
                       specs |-> SelectSeq(keep, LAMBDA sp : sp.type = "default")
                                 \o SelectSeq(keep, LAMBDA sp : sp.type = "namespace")
                                 \o SelectSeq(keep, LAMBDA sp : sp.type = "named"),
                       bad |-> FALSE]>>
               ELSE <<st>>

RECURSIVE DedupeStatements(_, _)
DedupeStatements(stmts, otherImports) ==
  IF stmts = <<>> THEN <<>>
  ELSE DedupeStatement(Head(stmts), otherImports) \o DedupeStatements(Tail(stmts), otherImports)

\* renameMap.set(spec.localName, match.localName) for every specifier found
\* under a different local name
RECURSIVE DedupeRenames(_, _, _)
DedupeRenames(specs, otherImports, acc) ==
  IF specs = <<>> THEN acc
  ELSE LET e == Head(specs)
           m == FirstMatch(e.source, e.spec, otherImports)
       IN DedupeRenames(Tail(specs), otherImports,
            IF m # <<>> /\ m[1].local # e.spec.local
            THEN MapSet(acc, e.spec.local, m[1].local) ELSE acc)

RECURSIVE SourcedSpecs(_)
SourcedSpecs(stmts) ==
  IF stmts = <<>> THEN <<>>
  ELSE MapSeq(Head(stmts).specs, LAMBDA sp : [source |-> Head(stmts).source, spec |-> sp])
       \o SourcedSpecs(Tail(stmts))

\* Called as (primaryChunk.code, sharedExternalImports): removes from `code`
\* what otherImports already import
removeOrRewriteDuplicateExternalImports(code, otherImports) ==
  [code |-> [code EXCEPT !.imports = DedupeStatements(code.imports, otherImports)],
   renameMap |-> DedupeRenames(SourcedSpecs(extractExternalImports(code)), otherImports, {})]

\* ------------------------------------------------------------------------
\* chunk-merger: removing the imports of a merged chunk
\* ------------------------------------------------------------------------
isSharedChunkSource(source, sharedChunkFileName) ==
  \/ Includes(source, <<SHARED_CHUNK_NAME>>)
  \/ Includes(source, StripJs(sharedChunkFileName))

isChunkSource(source, chunkFileName) == Includes(source, StripJs(chunkFileName))

\* The sources of the import and re-export statements of a code
SourcesOf(code) == {st.source : st \in Range(code.imports) \cup Range(code.reexports)}

\* First pass of both removers: the namespace names and the alias renames
\* collected from the import statements whose source is in fromChunk
NamespaceNames(code, fromChunk) ==
  {s.spec.local : s \in {t \in SpecsOf(code) : t.source \in fromChunk /\ t.spec.type = "namespace"}}

RECURSIVE AliasRenames(_, _, _, _)
AliasRenames(specs, exportToLocal, defaultLocal, acc) ==
  IF specs = <<>> THEN acc
  ELSE LET sp == Head(specs).spec
           actualLocal == IF sp.type = "named" THEN GetOr(exportToLocal, sp.imported, sp.imported)
                          ELSE GetOr(exportToLocal, "default", defaultLocal)
       IN AliasRenames(Tail(specs), exportToLocal, defaultLocal,
            IF sp.type # "namespace" /\ sp.local # actualLocal
            THEN MapSet(acc, sp.local, actualLocal) ELSE acc)

NamedImportRenames(code, fromChunk, exportToLocal, defaultLocal) ==
  AliasRenames(SourcedSpecs(SelectSeq(code.imports, LAMBDA st : st.source \in fromChunk)),
               exportToLocal, defaultLocal, {})

\* Second pass, common part: the selected import statements are removed,
\* `ns.prop` on a collected namespace becomes the local of prop, and every
\* other Identifier node that is a key of the alias renames is overwritten
RewriteRefs(code, fromChunk, exportToLocal, defaultLocal) ==
  LET ns == NamespaceNames(code, fromChunk)
      ren == NamedImportRenames(code, fromChunk, exportToLocal, defaultLocal)
      R(n) == GetOr(ren, n, n)
      hit == {u \in code.nsUses : u.ns \in ns}
  IN [code EXCEPT
       !.imports = MapSeq(SelectSeq(code.imports, LAMBDA st : st.source \notin fromChunk),
                     LAMBDA st : [st EXCEPT !.specs = MapSeq(st.specs, LAMBDA sp :
                        [sp EXCEPT !.imported = IF sp.type = "named" THEN R(sp.imported) ELSE sp.imported,
                                   !.local = R(sp.local)])]),
       !.decls = {[d EXCEPT !.name = R(d.name)] : d \in code.decls},
       !.uses = {[u EXCEPT !.name = R(u.name)] : u \in code.uses}
                \cup {[name |-> GetOr(exportToLocal, u.prop, u.prop), b |-> u.b] : u \in hit},
       !.nsUses = {[u EXCEPT !.ns = R(u.ns), !.prop = R(u.prop)] : u \in code.nsUses \ hit},
       !.exportSpecs = {[exported |-> R(e.exported), local |-> R(e.local)] : e \in code.exportSpecs},
       !.inlineExp = {R(n) : n \in code.inlineExp},
       !.sharedObj = {[key |-> R(e.key), value |-> R(e.value)] : e \in code.sharedObj}]

\* Variant of removeSharedImportsAndRewriteRefs that walks into a re-export it
\* has rewritten, so the alias renames reach the identifiers inside it
removeSharedImportsAndRewriteRefsNoSkip(code, sharedChunkFileName, sharedExportToLocal) ==
  LET From == {s \in SourcesOf(code) : isSharedChunkSource(s, sharedChunkFileName)}
      ren == NamedImportRenames(code, From, sharedExportToLocal, "__shared_default__")
      R(n) == GetOr(ren, n, n)
      base == RewriteRefs(code, From, sharedExportToLocal, "__shared_default__")
      fromShared == Range(SelectSeq(code.reexports, LAMBDA r : r.source \in From))
  IN [base EXCEPT
       !.exportSpecs = @ \cup UNION {{[exported |-> R(r.specs[j].exported), local |-> R(r.specs[j].local)] :
                                         j \in DOMAIN r.specs} : r \in fromShared},
       !.reexports = MapSeq(SelectSeq(code.reexports, LAMBDA r : r.source \notin From), LAMBDA r :
                        [r EXCEPT !.specs = MapSeq(r.specs, LAMBDA sp :
                             [exported |-> R(sp.exported), local |-> R(sp.local)])])]

removeSharedImportsAndRewriteRefs(code, sharedChunkFileName, sharedExportToLocal) ==
  LET From == {s \in SourcesOf(code) : isSharedChunkSource(s, sharedChunkFileName)}
      ren == NamedImportRenames(code, From, sharedExportToLocal, "__shared_default__")
      R(n) == GetOr(ren, n, n)
      base == RewriteRefs(code, From, sharedExportToLocal, "__shared_default__")
      fromShared == Range(SelectSeq(code.reexports, LAMBDA r : r.source \in From))
  IN [base EXCEPT
       \* export { X as Y } from <shared>  ->  export { local(X) as Y }
       !.exportSpecs = @ \cup UNION {{[exported |-> r.specs[j].exported,
                                        local |-> GetOr(sharedExportToLocal, r.specs[j].local, r.specs[j].local)] :
                                         j \in DOMAIN r.specs} : r \in fromShared},
       !.reexports = MapSeq(SelectSeq(code.reexports, LAMBDA r : r.source \notin From), LAMBDA r :
                        [r EXCEPT !.specs = MapSeq(r.specs, LAMBDA sp :
                             [exported |-> R(sp.exported), local |-> R(sp.local)])])]

\* Which exports of the shared chunk this code imports (namespace imports add nothing)
extractSharedImports(code, sharedChunkFileName) ==
  {IF s.spec.type = "named" THEN s.spec.imported ELSE "default" :
     s \in {t \in SpecsOf(code) : isSharedChunkSource(t.source, sharedChunkFileName)
                                   /\ t.spec.type # "namespace"}}

removeChunkImportsAndRewriteRefs(code, chunkFileName, exportToLocal) ==
  LET From == {s \in SourcesOf(code) : isChunkSource(s, chunkFileName)}
      ren == NamedImportRenames(code, From, exportToLocal, "__default__")
      R(n) == GetOr(ren, n, n)
  IN [RewriteRefs(code, From, exportToLocal, "__default__") EXCEPT
       !.reexports = MapSeq(code.reexports, LAMBDA r :
                        [r EXCEPT !.specs = MapSeq(r.specs, LAMBDA sp :
                             [exported |-> R(sp.exported), local |-> R(sp.local)])])]

\* chunk.imports.some(imp => isChunkSource(imp, sourceChunkFileName))
chunkImportsFrom(chunk, sourceChunkFileName) ==
  \E imp \in chunk.imports : isChunkSource(imp, sourceChunkFileName)

\* `${a}\n\n${b}`: the text of a followed by the text of b
ConcatCode(a, b) ==
  [imports |-> a.imports \o b.imports,
   decls |-> a.decls \cup b.decls,
   uses |-> a.uses \cup b.uses,
   nsUses |-> a.nsUses \cup b.nsUses,
   exportSpecs |-> a.exportSpecs \cup b.exportSpecs,
   reexports |-> a.reexports \o b.reexports,
   inlineExp |-> a.inlineExp \cup b.inlineExp,
   hasDefault |-> a.hasDefault \/ b.hasDefault,
   defB |-> IF a.hasDefault THEN a.defB ELSE b.defB,
   sharedObj |-> a.sharedObj \cup b.sharedObj]

\* ------------------------------------------------------------------------
\* chunk-merger: mergeUnsharedIntoImporters
\* ------------------------------------------------------------------------
\* Tokens of a chunk name that /[^a-zA-Z0-9]/ matches
NonAlnumTokens == {"-", "_", "/", ".", "$"}

\* unsharedChunk.name.replace(/[^a-zA-Z0-9]/g, '_')
RECURSIVE SanitizedName(_)
SanitizedName(name) ==
  IF name = <<>> THEN ""
  ELSE (IF Head(name) \in NonAlnumTokens THEN "_" ELSE Head(name)) \o SanitizedName(Tail(name))

UnsharedRenameMap(unsharedChunk) ==
  {[from |-> n, to |-> "__" \o SanitizedName(unsharedChunk.name) \o "$" \o n] :
     n \in extractTopLevelDeclarations(unsharedChunk.code)}

\* exportToLocal of the donor, before the per-entry renames
UnsharedExportToLocal(unsharedChunk) ==
  LET info == extractExports(unsharedChunk.code)
      named == {[from |-> e.exportedName, to |-> e.localName] : e \in info.exports}
  IN IF info.hasDefault THEN MapSet(named, "default", "__unshared_default__") ELSE named

\* strippedCode, with `const __shared_default__ = ` replaced when hasDefault
UnsharedStrippedCode(unsharedChunk) ==
  LET stripped == stripExports(unsharedChunk.code)
  IN IF unsharedChunk.code.hasDefault
     THEN [stripped EXCEPT !.decls =
             {IF d.name = "__shared_default__" THEN [d EXCEPT !.name = "__unshared_default__"] ELSE d :
                d \in stripped.decls}]
     ELSE stripped

\* The new code of one entry (the body of the loop over entryChunks)
InlineUnsharedInto(unsharedChunk, entry) ==
  IF ~chunkImportsFrom(entry, unsharedChunk.fileName) THEN entry.code
  ELSE LET renameMap == UnsharedRenameMap(unsharedChunk)
           codeToInline == renameIdentifiers(UnsharedStrippedCode(unsharedChunk), renameMap)
           localExportToLocal == {[from |-> e.from, to |-> GetOr(renameMap, e.to, e.to)] :
                                    e \in UnsharedExportToLocal(unsharedChunk)}
           entryWithoutImports == removeChunkImportsAndRewriteRefs(
                                    entry.code, unsharedChunk.fileName, localExportToLocal)
       IN ConcatCode(codeToInline, entryWithoutImports)

\* [ok, chunks]: the entries in order; the parse of an importing entry's code
\* throws and leaves the entries before it rewritten
RECURSIVE mergeUnsharedIntoImporters(_, _, _)
mergeUnsharedIntoImporters(unsharedChunk, entryChunks, chunks) ==
  IF entryChunks = <<>> THEN [ok |-> TRUE, chunks |-> chunks]
  ELSE LET e == Head(entryChunks)
       IN IF chunkImportsFrom(chunks[e], unsharedChunk.fileName) /\ ~Parses(chunks[e].code)
          THEN [ok |-> FALSE, chunks |-> chunks]
          ELSE mergeUnsharedIntoImporters(unsharedChunk, Tail(entryChunks),
                 [chunks EXCEPT ![e].code = InlineUnsharedInto(unsharedChunk, chunks[e])])

\* ------------------------------------------------------------------------
\* chunk-merger: mergeSharedIntoPrimary
\* ------------------------------------------------------------------------
\* The collision renames: two loops, shared declarations then shared import bindings
CollisionRenameMap(primaryCodeDeduped, sharedCode) ==
  LET primaryDeclarations == extractTopLevelDeclarations(primaryCodeDeduped)
      primaryExternalBindings == extractExternalImportBindings(primaryCodeDeduped)
  IN {[from |-> n, to |-> "__shared$" \o n] :
        n \in {m \in extractTopLevelDeclarations(sharedCode) \cup extractExternalImportBindings(sharedCode) :
                 m \in primaryDeclarations \/ m \in primaryExternalBindings}}

\* sharedExportToLocal: exported name -> local name after the collision renames
SharedExportToLocal(sharedCode, collisionRenameMap) ==
  LET info == extractExports(sharedCode)
      named == {[from |-> e.exportedName, to |-> GetOr(collisionRenameMap, e.localName, e.localName)] :
                  e \in info.exports}
  IN IF info.hasDefault THEN MapSet(named, "default", "__shared_default__") ELSE named

\* Variant of sharedExportEntries without the neededExports filter
SharedExportEntriesUnfiltered(sharedCode, collisionRenameMap, neededExports) ==
  LET info == extractExports(sharedCode)
  IN {[key |-> e.exportedName, value |-> GetOr(collisionRenameMap, e.localName, e.localName)] :
        e \in info.exports}
     \cup (IF info.hasDefault THEN {[key |-> "default", value |-> "__shared_default__"]} ELSE {})

\* Variant of sharedExportEntries that ignores the collision renames
SharedExportEntriesUnrenamed(sharedCode, collisionRenameMap, neededExports) ==
  LET info == extractExports(sharedCode)
  IN {[key |-> e.exportedName, value |-> e.localName] :
        e \in {x \in info.exports : x.exportedName \in neededExports}}
     \cup (IF info.hasDefault /\ "default" \in neededExports
           THEN {[key |-> "default", value |-> "__shared_default__"]} ELSE {})

\* sharedExportEntries: only the exports the satellites need
SharedExportEntries(sharedCode, collisionRenameMap, neededExports) ==
  LET info == extractExports(sharedCode)
  IN {[key |-> e.exportedName, value |-> GetOr(collisionRenameMap, e.localName, e.localName)] :
        e \in {x \in info.exports : x.exportedName \in neededExports}}
     \cup (IF info.hasDefault /\ "default" \in neededExports
           THEN {[key |-> "default", value |-> "__shared_default__"]} ELSE {})

\* Identity of the constant the merge appends
SharedObjectBinding(sharedProperty) == Binding(<<"(shared object)">>, sharedProperty)

\* [ok, code]: the new primaryChunk.code, or ok = FALSE when a parse throws
mergeSharedIntoPrimary(primaryCode, sharedChunk, sharedProperty, neededExports) ==
  LET sharedExternalImports == extractExternalImports(sharedChunk.code)
      deduped == removeOrRewriteDuplicateExternalImports(primaryCode, sharedExternalImports)
      collisionRenameMap == CollisionRenameMap(deduped.code, sharedChunk.code)
      processedSharedCode == renameIdentifiers(sharedChunk.code, collisionRenameMap)
      strippedSharedCode == stripExports(processedSharedCode)
      sharedExportToLocal == SharedExportToLocal(sharedChunk.code, collisionRenameMap)
      primaryWithoutSharedImports ==
        renameIdentifiers(
          removeSharedImportsAndRewriteRefs(deduped.code, sharedChunk.fileName, sharedExportToLocal),
          deduped.renameMap)
      entries == SharedExportEntries(sharedChunk.code, collisionRenameMap, neededExports)
      body == ConcatCode(strippedSharedCode, primaryWithoutSharedImports)
  IN IF ~(Parses(sharedChunk.code) /\ Parses(primaryCode) /\ Parses(processedSharedCode))
     THEN [ok |-> FALSE, code |-> primaryCode]
     ELSE [ok |-> TRUE,
           code |-> IF entries = {} THEN body
                    ELSE [body EXCEPT
                            !.sharedObj = entries,
                            !.decls = @ \cup {[name |-> sharedProperty, b |-> SharedObjectBinding(sharedProperty)]},
                            !.exportSpecs = @ \cup {[exported |-> sharedProperty, local |-> sharedProperty]}]]

\* ------------------------------------------------------------------------
\* chunk-analyzer
\* ------------------------------------------------------------------------
NoChunk == "(none)"

\* chunks.find(...): the first chunk of the sequence that is in `matching`
FindFirst(ids, matching) ==
  LET hits == {k \in DOMAIN ids : ids[k] \in matching}
  IN IF hits = {} THEN NoChunk ELSE ids[CHOOSE k \in hits : \A m \in hits : k <= m]

\* Variant of analyzeChunks whose error lists every chunk, entry or not
analyzeChunksListingAll(values, chunks, primaryEntryName) ==
  LET sharedChunk == FindFirst(values, {c \in Range(values) : ~chunks[c].isEntry /\ chunks[c].name = <<SHARED_CHUNK_NAME>>})
      primaryChunk == FindFirst(values, {c \in Range(values) : chunks[c].isEntry /\ chunks[c].name = primaryEntryName})
  IN IF primaryChunk = NoChunk
     THEN [ok |-> FALSE,
           error |-> [kind |-> "PrimaryNotFound", entry |-> primaryEntryName,
                      available |-> MapSeq(values, LAMBDA c : chunks[c].name)]]
     ELSE [ok |-> TRUE,
           sharedChunk |-> sharedChunk,
           primaryChunk |-> primaryChunk,
           satelliteChunks |-> SelectSeq(values, LAMBDA c : chunks[c].isEntry /\ chunks[c].name # primaryEntryName),
           unsharedChunks |-> SelectSeq(values, LAMBDA c : ~chunks[c].isEntry /\ chunks[c].name # <<SHARED_CHUNK_NAME>>)]

\* [ok, error] or [ok, sharedChunk, primaryChunk, satelliteChunks, unsharedChunks];
\* `values` is Object.values(bundle) in order, `chunks` the chunk objects
analyzeChunks(values, chunks, primaryEntryName) ==
  LET sharedChunk == FindFirst(values, {c \in Range(values) : ~chunks[c].isEntry /\ chunks[c].name = <<SHARED_CHUNK_NAME>>})
      primaryChunk == FindFirst(values, {c \in Range(values) : chunks[c].isEntry /\ chunks[c].name = primaryEntryName})
  IN IF primaryChunk = NoChunk
     THEN [ok |-> FALSE,
           error |-> [kind |-> "PrimaryNotFound", entry |-> primaryEntryName,
                      available |-> MapSeq(SelectSeq(values, LAMBDA c : chunks[c].isEntry),
                                           LAMBDA c : chunks[c].name)]]
     ELSE [ok |-> TRUE,
           sharedChunk |-> sharedChunk,
           primaryChunk |-> primaryChunk,
           satelliteChunks |-> SelectSeq(values, LAMBDA c : chunks[c].isEntry /\ chunks[c].name # primaryEntryName),
           unsharedChunks |-> SelectSeq(values, LAMBDA c : ~chunks[c].isEntry /\ chunks[c].name # <<SHARED_CHUNK_NAME>>)]

\* ------------------------------------------------------------------------
\* The bundles explored: chunks as Rollup emits them for small programs
\* ------------------------------------------------------------------------
Named(imported, local) == [type |-> "named", imported |-> imported, local |-> local]
Default(local) == [type |-> "default", imported |-> "default", local |-> local]
Namespace(local) == [type |-> "namespace", imported |-> "*", local |-> local]
Import(source, specs) == [source |-> source, specs |-> specs, bad |-> FALSE]

FileOf(name) == name \o <<".js">>
SourceOf(fileName) == <<"./">> \o fileName

SharedName == <<SHARED_CHUNK_NAME>>
SharedFile == FileOf(SharedName)
Lib == <<"lib">>
Other == <<"other">>
\* An external package whose id is the name of the primary global
OwnName == <<"MyLib">>

\* The binding an export of `code` (a chunk stored in `file`) denotes
ExportBinding(code, file, exportedName) ==
  LET info == extractExports(code)
      hit == {e \in info.exports : e.exportedName = exportedName}
  IN IF hit # {}
     THEN LET l == (CHOOSE e \in hit : TRUE).localName
              ds == {d \in code.decls : d.name = l}
          IN IF ds # {} THEN (CHOOSE d \in ds : TRUE).b ELSE Binding(file, l)
     ELSE IF exportedName = "default" /\ info.hasDefault THEN code.defB
     ELSE Binding(file, exportedName)

\* One use of every declaration and of every external import binding of a code;
\* a namespace import is used through its member x
WithOwnUses(code) ==
  LET ext == {s \in SpecsOf(code) : IsExternalSource(s.source)}
  IN [code EXCEPT
       !.uses = @ \cup {[name |-> d.name, b |-> d.b] : d \in code.decls}
                  \cup {[name |-> s.spec.local, b |-> Binding(s.source, s.spec.imported)] :
                          s \in {x \in ext : x.spec.type # "namespace"}},
       !.nsUses = @ \cup {[ns |-> s.spec.local, prop |-> "x", b |-> Binding(s.source, "x")] :
                          s \in {x \in ext : x.spec.type = "namespace"}}]

\* Adds an import of exports of the chunk `from` (code and file), with a use
\* of every alias; form is "named", "default", "namespace" or "reexport"
WithChunkImport(code, fromCode, fromFile, form, exportedName, local) ==
  LET tgt == ExportBinding(fromCode, fromFile, IF form = "default" THEN "default" ELSE exportedName)
      src == SourceOf(fromFile)
  IN CASE form = "named" ->
            [code EXCEPT !.imports = @ \o <<Import(src, <<Named(exportedName, local)>>)>>,
                         !.uses = @ \cup {[name |-> local, b |-> tgt]}]
       [] form = "default" ->
            [code EXCEPT !.imports = @ \o <<Import(src, <<Default(local)>>)>>,
                         !.uses = @ \cup {[name |-> local, b |-> tgt]}]
       [] form = "namespace" ->
            [code EXCEPT !.imports = @ \o <<Import(src, <<Namespace(local)>>)>>,
                         !.nsUses = @ \cup {[ns |-> local, prop |-> exportedName, b |-> tgt]}]
       [] form = "reexport" ->
            [code EXCEPT !.reexports = @ \o <<[source |-> src,
                                              specs |-> <<[local |-> exportedName, exported |-> local]>>]>>]
       \* import <exportedName> from src; export { <exportedName> as local } from src
       [] form = "reexportAlias" ->
            [code EXCEPT !.imports = @ \o <<Import(src, <<Default(exportedName)>>)>>,
                         !.uses = @ \cup {[name |-> exportedName, b |-> ExportBinding(fromCode, fromFile, "default")]},
                         !.reexports = @ \o <<[source |-> src,
                                              specs |-> <<[local |-> exportedName, exported |-> local]>>]>>]
       [] OTHER -> code

\* A module body: declarations `names` of the chunk stored in `file`
Declares(file, names) == [EmptyCode EXCEPT !.decls = {[name |-> n, b |-> Binding(file, n)] : n \in names}]

\* The shared chunk: util (exported inline or as u), optionally an internal
\* helper, a default export and external imports
SharedExtImports ==
  { <<>>,
    <<Import(Lib, <<Named("x", "s")>>)>>,
    <<Import(Lib, <<Default("d")>>)>>,
    <<Import(Lib, <<Namespace("ns")>>)>>,
    <<Import(Lib, <<Default("d"), Named("x", "s")>>)>> }

SharedCode(aliased, internal, hasDefault, ext) ==
  WithOwnUses(
    [Declares(SharedFile, {"util"} \cup (IF internal THEN {"helper"} ELSE {})) EXCEPT
       !.imports = ext,
       !.inlineExp = IF aliased THEN {} ELSE {"util"},
       !.exportSpecs = IF aliased THEN {[exported |-> "u", local |-> "util"]} ELSE {},
       !.hasDefault = hasDefault,
       !.defB = IF hasDefault THEN Binding(SharedFile, "default") ELSE NoBinding])

SharedCodes ==
  {SharedCode(a, TRUE, d, e) : a \in BOOLEAN, d \in BOOLEAN, e \in SharedExtImports}

\* The export of util under its exported name
UtilExport(sharedCode) == IF "util" \in sharedCode.inlineExp THEN "util" ELSE "u"

\* The primary entry: main (exported), optionally one more declaration, external
\* imports, and an import of the shared chunk in one of several forms
MainName == <<"main">>
MainFile == FileOf(MainName)

PrimaryExtras ==
  { {}, {"helper"}, {"util"}, {"s"}, {"d"}, {"helper", "__shared$helper"},
    {"Shared"}, {"__shared_default__"} }

PrimaryExtImports ==
  { <<>>,
    <<Import(Lib, <<Named("x", "p")>>)>>,
    <<Import(Lib, <<Named("x", "s")>>)>>,
    <<Import(Other, <<Named("y", "s")>>)>>,
    <<Import(Other, <<Named("y", "util")>>)>>,
    <<Import(Lib, <<Default("p")>>)>>,
    <<Import(Lib, <<Namespace("p")>>)>>,
    <<Import(Lib, <<Named("x", "p"), Named("z", "z")>>)>> }

\* <<form, local alias>> of the primary's import of util (or of the default export)
SharedImportForms ==
  { <<"none", "">>, <<"named", "v">>, <<"named", "util">>, <<"named", "helper">>,
    <<"namespace", "sh">>, <<"default", "df">>, <<"reexport", "v">>,
    <<"reexportAlias", "v">> }

\* No two bindings of one module share a name
WellFormed(code) ==
  /\ \A x, y \in SpecsOf(code) : x.spec.local = y.spec.local => x = y
  /\ \A d, e \in code.decls : d.name = e.name => d = e
  /\ \A x \in SpecsOf(code) : x.spec.local \notin {d.name : d \in code.decls}

EntryBody(file, names, exported, ext) ==
  WithOwnUses([Declares(file, names) EXCEPT !.imports = ext, !.inlineExp = exported])

PrimaryCode(extra, ext, form, sharedCode) ==
  WithChunkImport(EntryBody(MainFile, {"main"} \cup extra, {"main"}, ext),
                  sharedCode, SharedFile, form[1], UtilExport(sharedCode), form[2])

PrimaryCodes(sharedCode) ==
  {c \in {PrimaryCode(x, e, f, sharedCode) :
            x \in PrimaryExtras, e \in PrimaryExtImports,
            f \in {g \in SharedImportForms : g[1] \in {"default", "reexportAlias"} => sharedCode.hasDefault}} :
     WellFormed(c)}

\* A satellite entry: feature (exported unless the entry is side-effect only)
\* and an import of the shared chunk
SatName(k) == <<"sat" \o ToString(k)>>
SatFile(k) == FileOf(SatName(k))

SatelliteForms == { <<"none", "">>, <<"named", "w">>, <<"default", "dw">>, <<"namespace", "sw">> }

SatelliteCode(k, hasExports, ext, form, sharedCode) ==
  WithChunkImport(EntryBody(SatFile(k), {"feature"}, IF hasExports THEN {"feature"} ELSE {}, ext),
                  sharedCode, SharedFile, form[1], UtilExport(sharedCode), form[2])

SatelliteCodes(k, sharedCode) ==
  {SatelliteCode(k, TRUE, <<>>, f, sharedCode) :
     f \in {g \in SatelliteForms : g[1] = "default" => sharedCode.hasDefault}}

\* An unshared chunk: messages, exported inline, as m, or with a default export;
\* optionally importing x from lib or util from the shared chunk
UnsharedPool == 1..3
UnsharedName(k) ==
  CASE k = 1 -> <<"locale">>
    [] k = 2 -> <<"locale", "-", "en">>
    [] k = 3 -> <<"locale", "_", "en">>
    [] OTHER -> <<"chunk" \o ToString(k)>>
UnsharedFile(k) == FileOf(UnsharedName(k))

UnsharedVariants == {"inline", "alias", "default", "ext", "shared"}

UnsharedCode(k, variant, sharedCode) ==
  LET body == [Declares(UnsharedFile(k), {"messages"}) EXCEPT
                 !.imports = IF variant = "ext" THEN <<Import(Lib, <<Named("x", "x")>>)>> ELSE <<>>,
                 !.inlineExp = IF variant = "alias" THEN {} ELSE {"messages"},
                 !.exportSpecs = IF variant = "alias" THEN {[exported |-> "m", local |-> "messages"]} ELSE {},
                 !.hasDefault = (variant = "default"),
                 !.defB = IF variant = "default" THEN Binding(UnsharedFile(k), "default") ELSE NoBinding]
  IN IF variant = "shared"
     THEN WithChunkImport(WithOwnUses(body), sharedCode, SharedFile, "named", UtilExport(sharedCode), "util")
     ELSE WithOwnUses(body)

\* The exported name of messages in a variant, and the alias an entry gives it
MessagesExport(variant) == IF variant = "alias" THEN "m" ELSE "messages"
MessagesAlias(k) == IF k = 1 THEN "messages" ELSE "messages$" \o ToString(k - 1)
AliasOf(u) == IF u.alias = "" THEN MessagesAlias(u.k) ELSE u.alias

\* chunk.imports: the files a code statically imports from
ImportedFiles(code) ==
  {Tail(st.source) : st \in {s \in Range(code.imports) \cup Range(code.reexports) : ~IsExternalSource(s.source)}}

\* chunk.exports: the names a code exports
ExportedNames(code) ==
  {e.exportedName : e \in extractExports(code).exports} \cup (IF code.hasDefault THEN {"default"} ELSE {})

Chunk(name, isEntry, code) ==
  [name |-> name, fileName |-> FileOf(name), isEntry |-> isEntry, code |-> code,
   exports |-> ExportedNames(code), imports |-> ImportedFiles(code)]

\* ------------------------------------------------------------------------
\* Bounds and the families of initial bundles
\* ------------------------------------------------------------------------
MaxSatellites == 2
MaxUnshared == 2

SatId(k) == "sat" \o ToString(k)
UnsharedId(k) == "u" \o ToString(k)

BaselineShared == SharedCode(FALSE, TRUE, FALSE, <<>>)
BaselineSatellite(k, sharedCode) == SatelliteCode(k, TRUE, <<>>, <<"named", "w">>, sharedCode)

\* How the entries use an unshared chunk: which entries import it, in which form
BaselineUsage == [by |-> {"main", "sat1"}, form |-> "named", alias |-> ""]
UnsharedUsages ==
  { BaselineUsage,
    [by |-> {"main"}, form |-> "named", alias |-> ""],
    [by |-> {"main", "sat1"}, form |-> "namespace", alias |-> ""],
    [by |-> {"main"}, form |-> "named", alias |-> "helper"] }

UnsharedChoices ==
  {[k |-> k, variant |-> v, by |-> u.by, form |-> IF v = "default" THEN "default" ELSE u.form,
    alias |-> u.alias, baseline |-> (u = BaselineUsage)] :
     k \in UnsharedPool, v \in UnsharedVariants, u \in UnsharedUsages}

\* Sequences (processing orders) of at most MaxUnshared distinct unshared
\* chunks, at most one of them used otherwise than by the baseline usage
UnsharedSeqs ==
  UNION {{s \in [1..n -> UnsharedChoices] :
            /\ \A i, j \in 1..n : s[i].k = s[j].k => i = j
            /\ \A i, j \in 1..n : ~s[i].baseline /\ ~s[j].baseline => i = j} :
           n \in 0..MaxUnshared}

\* The entry's code with its imports of the unshared chunks it uses
RECURSIVE WithUnsharedImports(_, _, _, _)
WithUnsharedImports(code, entryId, unshared, sharedCode) ==
  IF unshared = <<>> THEN code
  ELSE LET u == Head(unshared)
           next == IF entryId \in u.by
                   THEN WithChunkImport(code, UnsharedCode(u.k, u.variant, sharedCode), UnsharedFile(u.k),
                                        u.form, MessagesExport(u.variant), AliasOf(u))
                   ELSE code
       IN WithUnsharedImports(next, entryId, Tail(unshared), sharedCode)

DefaultOptions(nSats) ==
  [primary |-> MainName, primaryGlobal |-> "MyLib", sharedProp |-> "Shared",
   secondaryProps |-> {[from |-> SatName(k), to |-> "Sat" \o ToString(k)] : k \in 1..nSats},
   skipRequireGlobals |-> FALSE,
   globals |-> {Lib, Other}]

\* An initial bundle: the chunk objects, Object.values(bundle) and the options
Bundle(hasShared, sharedCode, primaryCode, sats, unshared, opts) ==
  [chunks |-> ("main" :> Chunk(MainName, TRUE, WithUnsharedImports(primaryCode, "main", unshared, sharedCode)))
              @@ [id \in {SatId(k) : k \in DOMAIN sats} |->
                    LET k == CHOOSE j \in DOMAIN sats : SatId(j) = id
                    IN Chunk(SatName(k), TRUE, WithUnsharedImports(sats[k], id, unshared, sharedCode))]
              @@ (IF hasShared THEN "shared" :> Chunk(SharedName, FALSE, sharedCode) ELSE <<>>)
              @@ [id \in {UnsharedId(unshared[i].k) : i \in DOMAIN unshared} |->
                    LET i == CHOOSE j \in DOMAIN unshared : UnsharedId(unshared[j].k) = id
                    IN Chunk(UnsharedName(unshared[i].k), FALSE,
                             UnsharedCode(unshared[i].k, unshared[i].variant, sharedCode))],
   values |-> <<"main">> \o [k \in DOMAIN sats |-> SatId(k)]
              \o (IF hasShared THEN <<"shared">> ELSE <<>>)
              \o [i \in DOMAIN unshared |-> UnsharedId(unshared[i].k)],
   options |-> opts]

\* Merge focus: every shared chunk against every primary, one satellite
MergeBundles ==
  {Bundle(TRUE, s, p, <<BaselineSatellite(1, s)>>, <<>>, DefaultOptions(1)) :
     <<s, p>> \in UNION {{<<s, p>> : p \in PrimaryCodes(s)} : s \in SharedCodes}}

\* Needed-exports focus: every shared chunk against every set of satellites
SatelliteSeqs(s) ==
  UNION {{q \in [1..n -> UNION {SatelliteCodes(k, s) : k \in 1..n}] :
            \A k \in 1..n : q[k] \in SatelliteCodes(k, s)} : n \in 0..MaxSatellites}

NeededBundles ==
  {Bundle(TRUE, sq[1], PrimaryCode({}, <<>>, <<"named", "v">>, sq[1]), sq[2], <<>>, DefaultOptions(Len(sq[2]))) :
     sq \in UNION {{<<s, q>> : q \in SatelliteSeqs(s)} : s \in SharedCodes}}

\* Unshared focus: the baseline shared chunk, a primary importing x from lib,
\* one satellite, with or without an import of the shared chunk of its own,
\* and every sequence of unshared chunks
UnsharedBundles ==
  {Bundle(TRUE, BaselineShared,
          PrimaryCode({}, <<Import(Lib, <<Named("x", "x")>>)>>, <<"named", "v">>, BaselineShared),
          <<SatelliteCode(1, TRUE, <<>>, f, BaselineShared)>>, u, DefaultOptions(1)) :
     u \in UnsharedSeqs, f \in {<<"named", "w">>, <<"none", "">>}}

\* Configuration focus: the primary entry name, secondaryProps, globals and
\* skipRequireGlobals vary; with and without a shared chunk
ConfigBundles ==
  {Bundle(hs, BaselineShared,
          PrimaryCode({}, <<Import(pe, <<Named("x", "p")>>)>>, IF hs THEN <<"named", "v">> ELSE <<"none", "">>, BaselineShared),
          <<SatelliteCode(1, he, <<>>, IF hs THEN <<"named", "w">> ELSE <<"none", "">>, BaselineShared)>>
            \o (IF two THEN <<SatelliteCode(2, TRUE, <<>>, <<"none", "">>, BaselineShared)>> ELSE <<>>),
          <<>>,
          [DefaultOptions(1) EXCEPT !.primary = pn, !.secondaryProps = sp,
                                    !.skipRequireGlobals = sk, !.globals = g]) :
     hs \in BOOLEAN, he \in BOOLEAN, two \in BOOLEAN, pn \in {MainName, <<"missing">>},
     sp \in {{}, DefaultOptions(1).secondaryProps, DefaultOptions(2).secondaryProps},
     sk \in BOOLEAN, g \in {{}, {Lib, Other}}, pe \in {Lib, OwnName}}

InitialBundles == MergeBundles \cup NeededBundles \cup UnsharedBundles \cup ConfigBundles

\* ------------------------------------------------------------------------
\* The generateBundle hook as a state machine
\* ------------------------------------------------------------------------
VARIABLES
  chunk,          \* the chunk objects (OutputChunk), by chunk id
  values,         \* Object.values(bundle) when the hook starts
  bundle,         \* the keys of the output bundle (chunk ids)
  options,        \* the plugin options and the captured output globals
  pc,             \* position in generateBundle
  analysis,       \* result of analyzeChunks
  neededExports,  \* the set collected from the satellites
  ui,             \* index of the next unshared chunk to inline
  si,             \* index of the next satellite to schedule
  task,           \* state of the conversion promise of each entry chunk
  conv,           \* the convertToIife call of each conversion: options, build, error
  wrapped,        \* the chunks whose code the conversion's callback has replaced
  error,          \* the error generateBundle rejected with
  orig,           \* history: the chunk objects when the hook started
  prev,           \* history: the chunk objects before the last merge step
  rec,            \* one run of the wrapper post-processing: input, wrapper, result
  outputGlobals,  \* closure variable of the plugin instance: the captured globals
  outputBanner,   \* closure variable of the plugin instance: the captured banner
  outputFooter,   \* closure variable of the plugin instance: the captured footer
  outputs         \* the outputs one plugin instance serves: options, hook position, what was read

vars == <<chunk, values, bundle, options, pc, analysis, neededExports, ui, si, task, conv, wrapped, error, orig, prev, rec,
          outputGlobals, outputBanner, outputFooter, outputs>>

NoError == [kind |-> "none"]
NoAnalysis == [ok |-> FALSE]
NoRec == [pc |-> "off"]

Init ==
  \E b \in InitialBundles :
    /\ chunk = b.chunks
    /\ values = b.values
    /\ bundle = DOMAIN b.chunks
    /\ options = b.options
    /\ pc = "start"
    /\ analysis = NoAnalysis
    /\ neededExports = {}
    /\ ui = 1
    /\ si = 1
    /\ task = [c \in {} |-> "none"]
    /\ conv = [c \in {} |-> "none"]
    /\ wrapped = {}
    /\ error = NoError
    /\ orig = b.chunks
    /\ prev = b.chunks
    /\ rec = NoRec
    /\ outputGlobals = {}
    /\ outputBanner = "undefined"
    /\ outputFooter = "undefined"
    /\ outputs = <<>>

\* Variant of the deletion that leaves the chunk in the bundle
KeepChunk(keys, c) == keys

\* delete bundle[chunk.fileName]
DeleteChunk(keys, c) == keys \ {c}

\* Step 1: const analysis = analyzeChunks(bundle, primary)
Analyze ==
  /\ pc = "start"
  /\ LET a == analyzeChunks(values, chunk, options.primary)
     IN IF a.ok
        THEN /\ analysis' = a
             /\ pc' = "shared"
             /\ error' = error
        ELSE /\ analysis' = analysis
             /\ pc' = "failed"
             /\ error' = a.error
  /\ UNCHANGED <<chunk, values, bundle, options, neededExports, ui, si, task, conv, wrapped, orig, prev, rec, outputGlobals, outputBanner, outputFooter, outputs>>

\* The needed exports collected from every satellite
CollectNeededExports(satelliteChunks, chunks, sharedChunkFileName) ==
  UNION {extractSharedImports(chunks[satelliteChunks[i]].code, sharedChunkFileName) :
           i \in DOMAIN satelliteChunks}

\* Step 2: merge the shared chunk into the primary and delete it
MergeShared ==
  /\ pc = "shared"
  /\ analysis.sharedChunk # NoChunk
  /\ LET shared == chunk[analysis.sharedChunk]
         needed == CollectNeededExports(analysis.satelliteChunks, chunk, shared.fileName)
         m == mergeSharedIntoPrimary(chunk[analysis.primaryChunk].code, shared,
                                     options.sharedProp, needed)
     IN /\ neededExports' = needed
        /\ prev' = chunk
        /\ IF m.ok
           THEN /\ chunk' = [chunk EXCEPT ![analysis.primaryChunk].code = m.code]
                /\ bundle' = DeleteChunk(bundle, analysis.sharedChunk)
                /\ pc' = "unshared"
                /\ error' = error
           ELSE /\ pc' = "failed"
                /\ error' = [kind |-> "ParseError"]
                /\ UNCHANGED <<chunk, bundle>>
  /\ UNCHANGED <<values, options, analysis, ui, si, task, conv, wrapped, orig, rec, outputGlobals, outputBanner, outputFooter, outputs>>

\* Step 2 when the bundle has no shared chunk
SkipShared ==
  /\ pc = "shared"
  /\ analysis.sharedChunk = NoChunk
  /\ pc' = "unshared"
  /\ UNCHANGED <<chunk, values, bundle, options, analysis, neededExports, ui, si, task, conv, wrapped, error, orig, prev, rec, outputGlobals, outputBanner, outputFooter, outputs>>

\* Step 2b, one iteration: mergeUnsharedIntoImporters(unsharedChunk, allEntries)
\* and delete bundle[unsharedChunk.fileName]
MergeUnshared ==
  /\ pc = "unshared"
  /\ ui <= Len(analysis.unsharedChunks)
  /\ LET u == analysis.unsharedChunks[ui]
         allEntries == <<analysis.primaryChunk>> \o analysis.satelliteChunks
         m == mergeUnsharedIntoImporters(chunk[u], allEntries, chunk)
     IN /\ prev' = chunk
        /\ chunk' = m.chunks
        /\ IF m.ok
           THEN /\ bundle' = DeleteChunk(bundle, u)
                /\ ui' = ui + 1
                /\ UNCHANGED <<pc, error>>
           ELSE /\ pc' = "failed"
                /\ error' = [kind |-> "ParseError"]
                /\ UNCHANGED <<bundle, ui>>
  /\ UNCHANGED <<values, options, analysis, neededExports, si, task, conv, wrapped, orig, rec, outputGlobals, outputBanner, outputFooter, outputs>>

\* The ids the nested build asks a global for: every import source of the code
ExternalIds(code) == {st.source : st \in Range(code.imports) \cup Range(code.reexports)}

\* s starts with the prefix p
StartsWith(s, p) == Len(p) <= Len(s) /\ SubSeq(s, 1, Len(p)) = p

\* rollupGlobals(id): "id" (the IIFE's own name), "shared" (sharedGlobalPath),
\* "global" (globals[id]), "undefined" (Rollup generates a name) or "throw"
rollupGlobals(id, cv) ==
  IF cv.globalName # <<>> /\ (id = cv.globalName \/ StartsWith(cv.globalName, id \o <<".">>))
  THEN "id"
  ELSE IF cv.sharedGlobalPath
          /\ (Includes(id, <<SHARED_CHUNK_NAME>>)
              \/ (cv.sharedChunkFileName # <<>> /\ Includes(id, StripJs(cv.sharedChunkFileName))))
  THEN "shared"
  ELSE IF id \in cv.globals THEN "global"
  ELSE IF cv.skipRequireGlobals THEN "undefined"
  ELSE "throw"

\* The ids of the code for which rollupGlobals throws 'Missing global'
MissingGlobal(cv) == {id \in ExternalIds(cv.code) : rollupGlobals(id, cv) = "throw"}

\* The options object of one convertToIife call, with the state of its
\* nested build ("none", "open", "closed") and the error it rejected with
ConvertOptions(code, globalName, isSatellite) ==
  [code |-> code,
   globalName |-> globalName,
   globals |-> options.globals,
   sharedGlobalPath |-> isSatellite,
   sharedChunkFileName |-> IF isSatellite /\ analysis.sharedChunk # NoChunk
                           THEN chunk[analysis.sharedChunk].fileName ELSE <<>>,
   skipRequireGlobals |-> options.skipRequireGlobals,
   build |-> "none",
   error |-> NoError]

\* The first push as it would be if the primary were wrapped before the
\* unshared chunks are inlined
ConvertPrimaryEarly ==
  /\ pc = "unshared"
  /\ task' = (analysis.primaryChunk :> "pending")
  /\ conv' = (analysis.primaryChunk :>
                ConvertOptions(chunk[analysis.primaryChunk].code, <<options.primaryGlobal>>, FALSE))
  /\ pc' = "schedule"
  /\ UNCHANGED <<chunk, values, bundle, options, analysis, neededExports, ui, si, wrapped, error, orig, prev, rec, outputGlobals, outputBanner, outputFooter, outputs>>

\* Step 3, first push: convertToIife is called for the primary chunk
ConvertPrimary ==
  /\ pc = "unshared"
  /\ ui > Len(analysis.unsharedChunks)
  /\ task' = (analysis.primaryChunk :> "pending")
  /\ conv' = (analysis.primaryChunk :>
                ConvertOptions(chunk[analysis.primaryChunk].code, <<options.primaryGlobal>>, FALSE))
  /\ pc' = "schedule"
  /\ UNCHANGED <<chunk, values, bundle, options, analysis, neededExports, ui, si, wrapped, error, orig, prev, rec, outputGlobals, outputBanner, outputFooter, outputs>>

\* The satellite iteration as it would be if a missing mapping failed the pass
\* whether or not the satellite has exports
ConvertSatelliteStrict ==
  /\ pc = "schedule"
  /\ si <= Len(analysis.satelliteChunks)
  /\ LET s == analysis.satelliteChunks[si]
         satelliteProp == GetOr(options.secondaryProps, chunk[s].name, "")
     IN IF satelliteProp = ""
        THEN /\ pc' = "failed"
             /\ error' = [kind |-> "SecondaryNotFound", entry |-> chunk[s].name,
                           available |-> {e.from : e \in options.secondaryProps}]
             /\ UNCHANGED <<task, conv, si>>
        ELSE /\ task' = task @@ (s :> "pending")
             /\ conv' = conv @@ (s :> ConvertOptions(chunk[s].code,
                                      <<options.primaryGlobal, ".", satelliteProp>>, TRUE))
             /\ si' = si + 1
             /\ UNCHANGED <<pc, error>>
  /\ UNCHANGED <<chunk, values, bundle, options, analysis, neededExports, ui, wrapped, orig, prev, rec, outputGlobals, outputBanner, outputFooter, outputs>>

\* Step 3, one iteration of the loop over the satellites
ConvertSatellite ==
  /\ pc = "schedule"
  /\ si <= Len(analysis.satelliteChunks)
  /\ LET s == analysis.satelliteChunks[si]
         satelliteProp == GetOr(options.secondaryProps, chunk[s].name, "")
         hasExports == chunk[s].exports # {}
         satelliteGlobalName == IF satelliteProp # ""
                                THEN <<options.primaryGlobal, ".", satelliteProp>> ELSE <<>>
     IN IF satelliteProp = "" /\ hasExports
        THEN /\ pc' = "failed"
             /\ error' = [kind |-> "SecondaryNotFound", entry |-> chunk[s].name,
                           available |-> {e.from : e \in options.secondaryProps}]
             /\ UNCHANGED <<task, conv, si>>
        ELSE /\ task' = task @@ (s :> "pending")
             /\ conv' = conv @@ (s :> ConvertOptions(chunk[s].code, satelliteGlobalName, TRUE))
             /\ si' = si + 1
             /\ UNCHANGED <<pc, error>>
  /\ UNCHANGED <<chunk, values, bundle, options, analysis, neededExports, ui, wrapped, orig, prev, rec, outputGlobals, outputBanner, outputFooter, outputs>>

\* await Promise.all(conversions) is reached
AwaitConversions ==
  /\ pc = "schedule"
  /\ si > Len(analysis.satelliteChunks)
  /\ pc' = "await"
  /\ UNCHANGED <<chunk, values, bundle, options, analysis, neededExports, ui, si, task, conv, wrapped, error, orig, prev, rec, outputGlobals, outputBanner, outputFooter, outputs>>

\* A conversion rejects: the first rejection while generateBundle awaits
\* rejects Promise.all and generateBundle with it
Reject(c, err) ==
  /\ task' = [task EXCEPT ![c] = "rejected"]
  /\ IF pc = "await"
     THEN pc' = "failed" /\ error' = err
     ELSE UNCHANGED <<pc, error>>

\* convertToIife up to `await rollup(...)`: the code is parsed (for the import
\* mappings and by the nested build); the bundle instance exists afterwards
RollupBuild(c) ==
  /\ pc \in {"await", "failed"}
  /\ c \in DOMAIN task
  /\ task[c] = "pending"
  /\ conv[c].build = "none"
  /\ IF ~Parses(conv[c].code)
     THEN /\ Reject(c, [kind |-> "ParseError", chunk |-> c])
          /\ conv' = [conv EXCEPT ![c].error = [kind |-> "ParseError", chunk |-> c]]
     ELSE /\ conv' = [conv EXCEPT ![c].build = "open"]
          /\ UNCHANGED <<task, pc, error>>
  /\ UNCHANGED <<chunk, values, bundle, options, analysis, neededExports, ui, si, wrapped, orig, prev, rec, outputGlobals, outputBanner, outputFooter, outputs>>

\* `await bundle.generate(...)`: rollupGlobals is asked for every external id
\* and its throw rejects the conversion; bundle.close() is not reached then
Generate(c) ==
  /\ pc \in {"await", "failed"}
  /\ c \in DOMAIN task
  /\ task[c] = "pending"
  /\ conv[c].build = "open"
  /\ IF MissingGlobal(conv[c]) # {}
     THEN /\ Reject(c, [kind |-> "MissingGlobal", ids |-> MissingGlobal(conv[c]), chunk |-> c])
          /\ conv' = [conv EXCEPT ![c].error =
                         [kind |-> "MissingGlobal", ids |-> MissingGlobal(conv[c]), chunk |-> c]]
     ELSE /\ task' = [task EXCEPT ![c] = "generated"]
          /\ conv' = conv
          /\ UNCHANGED <<pc, error>>
  /\ UNCHANGED <<chunk, values, bundle, options, analysis, neededExports, ui, si, wrapped, orig, prev, rec, outputGlobals, outputBanner, outputFooter, outputs>>

\* `await bundle.close()`, the post-processing of the output and the callback
\* `chunk.code = code`
CloseAndReturn(c) ==
  /\ pc \in {"await", "failed"}
  /\ c \in DOMAIN task
  /\ task[c] = "generated"
  /\ conv' = [conv EXCEPT ![c].build = "closed"]
  /\ wrapped' = wrapped \cup {c}
  /\ task' = [task EXCEPT ![c] = "fulfilled"]
  /\ UNCHANGED <<chunk, values, bundle, options, pc, analysis, neededExports, ui, si, error, orig, prev, rec, outputGlobals, outputBanner, outputFooter, outputs>>

\* The joint await as it would be if it resolved with the first fulfilled task
FinishOnFirst ==
  /\ pc = "await"
  /\ \E c \in DOMAIN task : task[c] = "fulfilled"
  /\ pc' = "done"
  /\ UNCHANGED <<chunk, values, bundle, options, analysis, neededExports, ui, si, task, conv, wrapped, error, orig, prev, rec, outputGlobals, outputBanner, outputFooter, outputs>>

\* Promise.all resolves: every conversion is fulfilled
Finish ==
  /\ pc = "await"
  /\ \A c \in DOMAIN task : task[c] = "fulfilled"
  /\ pc' = "done"
  /\ UNCHANGED <<chunk, values, bundle, options, analysis, neededExports, ui, si, task, conv, wrapped, error, orig, prev, rec, outputGlobals, outputBanner, outputFooter, outputs>>

Next ==
  \/ Analyze
  \/ MergeShared
  \/ SkipShared
  \/ MergeUnshared
  \/ ConvertPrimary
  \/ ConvertSatellite
  \/ AwaitConversions
  \/ \E c \in DOMAIN chunk : RollupBuild(c)
  \/ \E c \in DOMAIN chunk : Generate(c)
  \/ \E c \in DOMAIN chunk : CloseAndReturn(c)
  \/ Finish

Spec == Init /\ [][Next]_vars

\* ------------------------------------------------------------------------
\* esm-to-iife: the post-processing of a wrapper
\* ------------------------------------------------------------------------
\* The nodes of a wrapper: identifiers, non-computed member accesses, the
\* 'use strict' directive and a destructuring pattern
Id(name) == [t |-> "id", name |-> name, obj |-> "", prop |-> "", entries |-> <<>>]
Member(obj, prop) == [t |-> "member", name |-> "", obj |-> obj, prop |-> prop, entries |-> <<>>]
UseStrict == [t |-> "strict", name |-> "", obj |-> "", prop |-> "", entries |-> <<>>]
Pattern(entries) == [t |-> "pattern", name |-> "", obj |-> "", prop |-> "", entries |-> entries]

\* The import specifiers of a code in source order, with their source
RECURSIVE SpecSeq(_)
SpecSeq(imports) ==
  IF imports = <<>> THEN <<>>
  ELSE [i \in DOMAIN Head(imports).specs |->
          [source |-> Head(imports).source, spec |-> Head(imports).specs[i]]]
       \o SpecSeq(Tail(imports))

extractSharedImportMappings(code) ==
  LET fromShared == SelectSeq(SpecSeq(code.imports),
                              LAMBDA x : /\ Includes(x.source, <<SHARED_CHUNK_NAME>>)
                                         /\ x.spec.type \in {"named", "default"})
  IN [i \in DOMAIN fromShared |->
        [imported |-> IF fromShared[i].spec.type = "default" THEN "default"
                      ELSE fromShared[i].spec.imported,
         local |-> fromShared[i].spec.local]]

\* The sources of the import statements in order of first occurrence
RECURSIVE FirstOccurrences(_, _)
FirstOccurrences(s, seen) ==
  IF s = <<>> THEN <<>>
  ELSE IF Head(s) \in seen THEN FirstOccurrences(Tail(s), seen)
       ELSE <<Head(s)>> \o FirstOccurrences(Tail(s), seen \cup {Head(s)})

\* The parameter name the nested build gives an external id
ParamName(id) == IF Includes(id, <<SHARED_CHUNK_NAME>>) THEN "__shared___js" ELSE "lib"

\* The output of bundle.generate for format 'iife' with exports 'named': one
\* parameter per imported id in import order, after `exports` when the code
\* has exports; every named import is a member access on its parameter; the
\* name `X.Y` is assigned through `this` behind a guard line
RollupIife(code, hasExports, strict) ==
  LET ids == FirstOccurrences([i \in DOMAIN code.imports |-> code.imports[i].source], {})
      sites == SelectSeq(SpecSeq(code.imports), LAMBDA x : x.spec.type = "named")
  IN [guard |-> hasExports,
      target |-> IF hasExports THEN <<"this", "MyLib", "Sat1">> ELSE <<>>,
      params |-> (IF hasExports THEN <<Id("exports")>> ELSE <<>>)
                 \o [i \in DOMAIN ids |-> Id(ParamName(ids[i]))],
      body |-> (IF strict THEN <<UseStrict>> ELSE <<>>)
               \o [i \in DOMAIN sites |-> Member(ParamName(sites[i].source), sites[i].spec.imported)]
               \o (IF hasExports THEN <<Member("exports", "feature")>> ELSE <<>>)]

stripNamespaceGuards(w) ==
  [w EXCEPT !.guard = FALSE,
            !.target = IF w.target # <<>> /\ Head(w.target) = "this" /\ Len(w.target) = 3
                       THEN Tail(w.target) ELSE w.target]

\* The last mapping of a property wins in `new Map(entries)`
ImportToLocal(effectiveMappings, propName) ==
  LET at == {i \in DOMAIN effectiveMappings : effectiveMappings[i].imported = propName}
  IN IF at = {} THEN propName
     ELSE effectiveMappings[CHOOSE i \in at : \A j \in at : j <= i].local

destructureSharedParameter(w, mappings) ==
  IF w.params = <<>> \/ w.params[Len(w.params)].t # "id" THEN w
  ELSE LET sharedParamName == w.params[Len(w.params)].name
           IsAccess(n) == n.t = "member" /\ n.obj = sharedParamName
           propNames == FirstOccurrences(
                          [i \in DOMAIN SelectSeq(w.body, IsAccess) |-> SelectSeq(w.body, IsAccess)[i].prop], {})
           effectiveMappings ==
             IF mappings = <<>>
             THEN [i \in DOMAIN propNames |-> [imported |-> propNames[i], local |-> propNames[i]]]
             ELSE mappings
       IN IF effectiveMappings = <<>> THEN w
          ELSE [w EXCEPT
                  !.params = [@ EXCEPT ![Len(w.params)] = Pattern(effectiveMappings)],
                  !.body = [i \in DOMAIN SelectSeq(w.body, LAMBDA n : n.t # "strict") |->
                              LET n == SelectSeq(w.body, LAMBDA m : m.t # "strict")[i]
                              IN IF IsAccess(n) THEN Id(ImportToLocal(effectiveMappings, n.prop))
                                 ELSE n]]

\* The end of convertToIife for a satellite (sharedGlobalPath is set)
PostProcess(result, importMappings, globalName) ==
  IF importMappings # <<>>
  THEN destructureSharedParameter(stripNamespaceGuards(result), importMappings)
  ELSE IF globalName # <<>> THEN stripNamespaceGuards(result) ELSE result

\* The satellite codes the post-processing is run on: up to MaxSpecifiers
\* named imports from the shared chunk, in one statement each, an export under
\* two local names included, and an import from an external package before
\* them, after them or absent
MaxSpecifiers == 3
SharedSpecifiers == {Named("a", "a"), Named("a", "x"), Named("b", "b"), Named("b", "y")}
SpecifierSeqs ==
  UNION {{s \in [1..n -> SharedSpecifiers] : \A i, j \in 1..n : s[i].local = s[j].local => i = j} :
           n \in 0..MaxSpecifiers}
SatelliteInputs ==
  {[code |-> [EmptyCode EXCEPT
                !.imports = (IF ext = "before" THEN <<Import(Lib, <<Named("x", "p")>>)>> ELSE <<>>)
                            \o [i \in DOMAIN s |-> Import(SourceOf(SharedFile), <<s[i]>>)]
                            \o (IF ext = "after" THEN <<Import(Lib, <<Named("x", "p")>>)>> ELSE <<>>)],
    hasExports |-> he, strict |-> st] :
     s \in SpecifierSeqs, ext \in {"none", "before", "after"}, he \in BOOLEAN, st \in BOOLEAN}

InitRecover ==
  /\ \E in \in SatelliteInputs :
       rec = [pc |-> "input", code |-> in.code, hasExports |-> in.hasExports, strict |-> in.strict]
  /\ chunk = <<>>
  /\ values = <<>>
  /\ bundle = {}
  /\ options = DefaultOptions(1)
  /\ pc = "off"
  /\ analysis = NoAnalysis
  /\ neededExports = {}
  /\ ui = 1
  /\ si = 1
  /\ task = <<>>
  /\ conv = <<>>
  /\ wrapped = {}
  /\ error = NoError
  /\ orig = <<>>
  /\ prev = <<>>
  /\ outputGlobals = {}
  /\ outputBanner = "undefined"
  /\ outputFooter = "undefined"
  /\ outputs = <<>>

\* convertToIife up to the output of the nested build
Wrap ==
  /\ rec.pc = "input"
  /\ rec' = [pc |-> "wrapped", code |-> rec.code, hasExports |-> rec.hasExports, strict |-> rec.strict,
             importMappings |-> extractSharedImportMappings(rec.code),
             wrapper |-> RollupIife(rec.code, rec.hasExports, rec.strict)]
  /\ UNCHANGED <<chunk, values, bundle, options, pc, analysis, neededExports, ui, si, task, conv, wrapped, error, orig, prev,
               outputGlobals, outputBanner, outputFooter, outputs>>

\* convertToIife from the output of the nested build to its return
Recover ==
  /\ rec.pc = "wrapped"
  /\ rec' = [pc |-> "recovered", code |-> rec.code, hasExports |-> rec.hasExports, strict |-> rec.strict,
             importMappings |-> rec.importMappings,
             wrapper |-> rec.wrapper,
             result |-> PostProcess(rec.wrapper, rec.importMappings,
                                    IF rec.hasExports THEN <<"MyLib", ".", "Sat1">> ELSE <<>>)]
  /\ UNCHANGED <<chunk, values, bundle, options, pc, analysis, neededExports, ui, si, task, conv, wrapped, error, orig, prev,
               outputGlobals, outputBanner, outputFooter, outputs>>

NextRecover == Wrap \/ Recover

SpecRecover == InitRecover /\ [][NextRecover]_vars

\* ------------------------------------------------------------------------
\* One plugin instance serving several outputs
\* ------------------------------------------------------------------------
MaxOutputs == 2

Undefined == "undefined"

\* The options of an output as far as the hooks read them: globals (a map
\* from external id to global name, or absent), banner and footer
OutputOptionsChoices ==
  { [hasGlobals |-> FALSE, globals |-> {}, banner |-> Undefined, footer |-> Undefined],
    [hasGlobals |-> TRUE, globals |-> {}, banner |-> Undefined, footer |-> "/* end */"],
    [hasGlobals |-> TRUE, globals |-> {[from |-> "lib", to |-> "Lib"]}, banner |-> "/* a */", footer |-> Undefined],
    [hasGlobals |-> TRUE, globals |-> {[from |-> "lib", to |-> "Lib2"]}, banner |-> "/* b */", footer |-> Undefined] }

\* The conversions of one pass in the order generateBundle starts them, which
\* is also the order of the chunks in step 4
WrapTasks == <<"primary", "satellite">>

NoRead == [read |-> FALSE, globals |-> {}]

NewOutput(o) ==
  [options |-> o, pc |-> "created", returned |-> [format |-> "iife", banner |-> o.banner, footer |-> o.footer],
   passed |-> NoRead, resolved |-> [t \in {} |-> {}], ai |-> 1, addons |-> <<>>]

InitOutputs ==
  /\ outputs \in [1..MaxOutputs -> {NewOutput(o) : o \in OutputOptionsChoices}]
  /\ outputGlobals = {}
  /\ outputBanner = Undefined
  /\ outputFooter = Undefined
  /\ rec = NoRec
  /\ chunk = <<>>
  /\ values = <<>>
  /\ bundle = {}
  /\ options = DefaultOptions(1)
  /\ pc = "off"
  /\ analysis = NoAnalysis
  /\ neededExports = {}
  /\ ui = 1
  /\ si = 1
  /\ task = <<>>
  /\ conv = <<>>
  /\ wrapped = {}
  /\ error = NoError
  /\ orig = <<>>
  /\ prev = <<>>

MainUnchanged ==
  UNCHANGED <<chunk, values, bundle, options, pc, analysis, neededExports, ui, si, task, conv, wrapped,
              error, orig, prev, rec>>

\* The outputOptions hook for output k: the three closure variables are
\* assigned and the options go back to Rollup with format es and without
\* banner and footer
OutputOptionsHook(k) ==
  /\ outputs[k].pc = "created"
  /\ outputGlobals' = IF outputs[k].options.hasGlobals THEN outputs[k].options.globals ELSE {}
  /\ outputBanner' = outputs[k].options.banner
  /\ outputFooter' = outputs[k].options.footer
  /\ outputs' = [outputs EXCEPT ![k].pc = "rendering",
                                 ![k].returned = [format |-> "es", banner |-> Undefined, footer |-> Undefined]]
  /\ MainUnchanged

\* generateBundle for output k up to the joint await: every convertToIife
\* call of the pass receives `globals: outputGlobals`
GenerateBundleStart(k) ==
  /\ outputs[k].pc = "rendering"
  /\ outputs' = [outputs EXCEPT ![k].pc = "converting",
                                 ![k].passed = [read |-> TRUE, globals |-> outputGlobals]]
  /\ MainUnchanged
  /\ UNCHANGED <<outputGlobals, outputBanner, outputFooter>>

\* rollupGlobals of one conversion of the pass reads the map it was given
RollupGlobals(k, t) ==
  /\ outputs[k].pc = "converting"
  /\ t \in Range(WrapTasks) \ DOMAIN outputs[k].resolved
  /\ outputs' = [outputs EXCEPT ![k].resolved =
                    [u \in DOMAIN @ \cup {t} |-> IF u = t THEN outputs[k].passed.globals ELSE @[u]]]
  /\ MainUnchanged
  /\ UNCHANGED <<outputGlobals, outputBanner, outputFooter>>

\* await Promise.all(conversions) resumes
ConversionsDone(k) ==
  /\ outputs[k].pc = "converting"
  /\ DOMAIN outputs[k].resolved = Range(WrapTasks)
  /\ outputs' = [outputs EXCEPT ![k].pc = IF outputBanner # Undefined \/ outputFooter # Undefined
                                           THEN "addons" ELSE "done"]
  /\ MainUnchanged
  /\ UNCHANGED <<outputGlobals, outputBanner, outputFooter>>

\* Step 4 for the next chunk of the pass: banner and footer are resolved from
\* the closure variables
ApplyAddons(k) ==
  /\ outputs[k].pc = "addons"
  /\ outputs' = [outputs EXCEPT
                   ![k].addons = Append(@, [banner |-> outputBanner, footer |-> outputFooter]),
                   ![k].ai = @ + 1,
                   ![k].pc = IF outputs[k].ai = Len(WrapTasks) THEN "done" ELSE "addons"]
  /\ MainUnchanged
  /\ UNCHANGED <<outputGlobals, outputBanner, outputFooter>>

NextOutputs ==
  \/ \E k \in DOMAIN outputs : OutputOptionsHook(k)
  \/ \E k \in DOMAIN outputs : GenerateBundleStart(k)
  \/ \E k \in DOMAIN outputs : \E t \in Range(WrapTasks) : RollupGlobals(k, t)
  \/ \E k \in DOMAIN outputs : ConversionsDone(k)
  \/ \E k \in DOMAIN outputs : ApplyAddons(k)

SpecOutputs == InitOutputs /\ [][NextOutputs]_vars

\* ------------------------------------------------------------------------
\* Scopes and resolution, for the properties below
\* ------------------------------------------------------------------------
\* The binding an import specifier denotes: the export of the chunk the
\* source names, or the external binding
ImportTarget(source, spec) ==
  LET cs == {c \in DOMAIN orig : SourceOf(orig[c].fileName) = source}
  IN IF spec.type = "namespace" THEN Binding(source, "*")
     ELSE IF IsExternalSource(source) \/ cs = {} THEN Binding(source, spec.imported)
     ELSE LET c == CHOOSE x \in cs : TRUE
          IN ExportBinding(orig[c].code, orig[c].fileName, spec.imported)

\* The binding sites of the module scope of a code: one per import specifier
\* and one per top-level declaration
ImportSites(code) ==
  {[name |-> code.imports[p[1]].specs[p[2]].local,
    b |-> ImportTarget(code.imports[p[1]].source, code.imports[p[1]].specs[p[2]]),
    at |-> p] :
     p \in {q \in (DOMAIN code.imports) \X (1..4) : q[2] \in DOMAIN code.imports[q[1]].specs}}

DeclSites(code) == {[name |-> d.name, b |-> d.b, at |-> <<0, 0>>] : d \in code.decls}

BindingSites(code) == ImportSites(code) \cup DeclSites(code)

NoCollision(sites) == \A x, y \in sites : x.name = y.name => x = y

\* The bindings a name resolves to in the module scope of a code
Resolve(code, name) == {s.b : s \in {x \in BindingSites(code) : x.name = name}}

\* Every identifier use and member access of a code denotes what it denoted
\* before the rewrites
UsesResolve(code) ==
  /\ \A u \in code.uses : Resolve(code, u.name) = {u.b}
  /\ \A u \in code.nsUses : Resolve(code, u.ns) = {Binding(u.b.src, "*")} /\ u.prop = u.b.n

\* The shared merge has just completed
SharedMerged == pc = "unshared" /\ ui = 1 /\ analysis.sharedChunk # NoChunk

PrimaryNow == chunk[analysis.primaryChunk].code
PrimaryBefore == orig[analysis.primaryChunk].code
SharedBefore == orig[analysis.sharedChunk].code

\* C1: after mergeSharedIntoPrimary no identifier is bound at the top level
\* of the merged primary code by more than one declaration or import
\* specifier of the two chunks.
C1_CollisionFreedom ==
  SharedMerged =>
    NoCollision({s \in BindingSites(PrimaryNow) : s.b # SharedObjectBinding(options.sharedProp)})

\* C2: after mergeSharedIntoPrimary every identifier use of the merged text
\* resolves to exactly one binding, the one it denoted before the merge.
C2_ReferenceIntegrity ==
  SharedMerged => UsesResolve(PrimaryNow)

\* The key set of the shared object of the merged primary
SharedKeys == {e.key : e \in PrimaryNow.sharedObj}

\* The exports a code imports by name (named or default specifier) from a file
ImportedByName(code, file) ==
  {s.spec.imported : s \in {x \in SpecsOf(code) : x.source = SourceOf(file) /\ x.spec.type # "namespace"}}

SatellitesImportByName ==
  UNION {ImportedByName(orig[analysis.satelliteChunks[i]].code, orig[analysis.sharedChunk].fileName) :
           i \in DOMAIN analysis.satelliteChunks}

AliasedDuplicates ==
  {pr \in SpecsOf(PrimaryBefore) \X SpecsOf(SharedBefore) :
     /\ IsExternalSource(pr[1].source)
     /\ pr[1].source = pr[2].source
     /\ SameImportedSymbol(pr[1].spec, pr[2].spec)
     /\ pr[1].spec.local # pr[2].spec.local}

\* C4: when primary and shared import the same external binding under
\* different aliases, the merged code holds exactly one import of it and
\* every reference to that binding resolves to that import.
C4_ExternalImportDedup ==
  SharedMerged =>
    \A pr \in AliasedDuplicates :
      LET target == ImportTarget(pr[1].source, pr[1].spec)
      IN /\ Cardinality({s \in ImportSites(PrimaryNow) : s.b = target}) = 1
         /\ \A u \in PrimaryNow.uses : u.b = target => Resolve(PrimaryNow, u.name) = {target}
         /\ \A u \in PrimaryNow.nsUses :
              Binding(u.b.src, "*") = target => Resolve(PrimaryNow, u.ns) = {target}

\* Every name a code binds or uses
NamesOf(code) ==
  {d.name : d \in code.decls} \cup {s.spec.local : s \in SpecsOf(code)}
    \cup {u.name : u \in code.uses} \cup {u.ns : u \in code.nsUses}

\* The collision rename map the shared merge computed
MergeRenameMap ==
  CollisionRenameMap(
    removeOrRewriteDuplicateExternalImports(PrimaryBefore, extractExternalImports(SharedBefore)).code,
    SharedBefore)

\* C5: every collision rename target __shared$<name> is a name that neither
\* the primary nor the shared chunk binds or uses.
C5_RenameTargetFreshness ==
  SharedMerged =>
    \A r \in MergeRenameMap : r.to \notin NamesOf(PrimaryBefore) \cup NamesOf(SharedBefore)

\* The merge phase of generateBundle is over
MergePhaseOver == pc \in {"schedule", "await", "done"} \/ (pc = "unshared" /\ ui > Len(analysis.unsharedChunks))

\* C6: after the whole merge phase the primary holds no import and no
\* re-export whose source is the shared chunk.
C6_NoSharedImportRemains ==
  (MergePhaseOver /\ analysis.sharedChunk # NoChunk) =>
    \A st \in Range(PrimaryNow.imports) \cup Range(PrimaryNow.reexports) :
      st.source # SourceOf(orig[analysis.sharedChunk].fileName)

\* C7: when generateBundle completes the bundle holds every entry chunk and
\* no shared or unshared chunk.
C7_OnlyEntriesEmitted ==
  pc = "done" => bundle = {c \in DOMAIN orig : orig[c].isEntry}

\* C7 witness: a completed pass over a bundle that had a shared chunk and an
\* unshared chunk.
C7_Witness ==
  /\ pc = "done"
  /\ analysis.sharedChunk # NoChunk
  /\ Len(analysis.unsharedChunks) > 0

\* An inlining step has just run: its donor, and the entries that imported it
UnsharedStepDone == pc = "unshared" /\ ui > 1
Donor == prev[analysis.unsharedChunks[ui - 1]]
AllEntries == {analysis.primaryChunk} \cup Range(analysis.satelliteChunks)
Importers == {e \in AllEntries : chunkImportsFrom(prev[e], Donor.fileName)}

\* The local name a donor binding carries after the inlining renames
RenamedLocal(donor, b) ==
  IF b.n = "default" THEN "__unshared_default__"
  ELSE "__" \o SanitizedName(donor.name) \o "$" \o b.n

\* C8: an inlining step renames every top-level declaration D of the donor
\* to __<sanitizedChunkName>$D in each importing entry, and every reference
\* of the entry to a donor export (named alias, default alias, namespace
\* member) is rewritten to the renamed local of that export.
C8_UnsharedInlining ==
  UnsharedStepDone =>
    \A e \in Importers :
      /\ \A d \in Donor.code.decls :
           /\ [name |-> RenamedLocal(Donor, d.b), b |-> d.b] \in chunk[e].code.decls
           /\ [name |-> d.name, b |-> d.b] \notin chunk[e].code.decls
      /\ \A u \in chunk[e].code.uses :
           u.b.src = Donor.fileName => u.name = RenamedLocal(Donor, u.b)
      /\ \A u \in chunk[e].code.nsUses : u.b.src # Donor.fileName

\* C9: an inlining step leaves every entry free of duplicate top-level
\* bindings when it was free of them before the step.
C9_UnsharedCollisionFreedom ==
  UnsharedStepDone =>
    \A e \in AllEntries :
      NoCollision(BindingSites(prev[e].code)) => NoCollision(BindingSites(chunk[e].code))

\* The names of the entry chunks, in bundle order
EntryNames == MapSeq(SelectSeq(values, LAMBDA c : orig[c].isEntry), LAMBDA c : orig[c].name)

\* C10: when no entry chunk is named `primary` the pass fails with an error
\* naming the requested entry and listing the entry names, with no chunk
\* modified and none deleted.
C10_MissingPrimaryEntry ==
  (pc # "start" /\ options.primary \notin Range(EntryNames)) =>
    /\ pc = "failed"
    /\ error = [kind |-> "PrimaryNotFound", entry |-> options.primary, available |-> EntryNames]
    /\ chunk = orig
    /\ bundle = DOMAIN orig

\* C10 witness: the failure, on a bundle with a satellite and a shared chunk.
C10_Witness ==
  /\ pc = "failed"
  /\ error.kind = "PrimaryNotFound"
  /\ Len(error.available) >= 1
  /\ \E c \in DOMAIN orig : ~orig[c].isEntry

\* A satellite that has exports and no entry in secondaryProps
LacksMapping(s) ==
  chunk[s].exports # {} /\ ~HasKey(options.secondaryProps, chunk[s].name)

Generated(c) ==
  \/ task[c] \in {"generated", "fulfilled"}
  \/ task[c] = "rejected" /\ conv[c].build = "open"

\* The external ids of a conversion that are not the shared chunk and have no
\* entry in the output globals
WithoutGlobal(c) ==
  {id \in ExternalIds(conv[c].code) :
     /\ ~(analysis.sharedChunk # NoChunk /\ id = SourceOf(orig[analysis.sharedChunk].fileName))
     /\ id \notin conv[c].globals}

\* C12: a conversion whose code imports an id that is not the shared chunk and
\* has no globals entry fails with 'Missing global' when skipRequireGlobals is
\* false, and no conversion fails with it when skipRequireGlobals is true.
C12_MissingGlobal ==
  \A c \in DOMAIN task :
    Generated(c) =>
      /\ (~conv[c].skipRequireGlobals /\ WithoutGlobal(c) # {})
            => (task[c] = "rejected" /\ conv[c].error.kind = "MissingGlobal")
      /\ conv[c].skipRequireGlobals => conv[c].error.kind # "MissingGlobal"

\* C13: when a conversion task settles, fulfilled or rejected, the nested build
\* it created has been closed.
C13_GuaranteedRelease ==
  \A c \in DOMAIN task :
    task[c] \in {"fulfilled", "rejected"} => conv[c].build # "open"

\* The entry chunks the analysis found
EntryChunks == {analysis.primaryChunk} \cup Range(analysis.satelliteChunks)

\* C14: the joint await covers one wrapping task per entry chunk; a rejected task
\* fails generateBundle, with the error of a rejected task; generateBundle
\* resolves only when every task is fulfilled and the code of every entry
\* chunk has been replaced by its wrapped form.
C14_FailFastJointAwait ==
  analysis.ok =>
  /\ pc \in {"await", "done"} => DOMAIN task = EntryChunks
  /\ \A c \in DOMAIN task : task[c] = "rejected" => pc = "failed"
  /\ (pc = "failed" /\ "chunk" \in DOMAIN error /\ DOMAIN task # {})
       => (task[error.chunk] = "rejected" /\ error = conv[error.chunk].error)
  /\ (pc = "failed" /\ DOMAIN task = EntryChunks /\ error.kind # "SecondaryNotFound")
       => \E c \in DOMAIN task : task[c] = "rejected" /\ error = conv[c].error
  /\ pc = "done" => (wrapped = EntryChunks /\ \A c \in EntryChunks : task[c] = "fulfilled")

\* C14 witness: generateBundle has failed with the error of one task while
\* another task has already replaced its chunk's code.
C14_Witness ==
  /\ pc = "failed"
  /\ "chunk" \in DOMAIN error
  /\ DOMAIN task # {}
  /\ task[error.chunk] = "rejected"
  /\ wrapped # {}

\* The wrapper of the recorded run has no parameter besides `exports` and the
\* shared parameter
OnlySharedParameter ==
  \A i \in DOMAIN rec.wrapper.params : rec.wrapper.params[i].name \in {"exports", "__shared___js"}

\* The properties through which the wrapper accesses its shared parameter
AccessedProps ==
  {rec.wrapper.body[i].prop :
     i \in {j \in DOMAIN rec.wrapper.body :
              rec.wrapper.body[j].t = "member" /\ rec.wrapper.body[j].obj = "__shared___js"}}

\* C15: after recovery of a wrapper whose shared parameter is the sole one or
\* follows `exports` and is accessed through N distinct properties, that
\* parameter is a pattern with exactly N entries and every access site is the
\* local name the pattern gives its property; with no access the parameters
\* and the body are unchanged.
C15_DestructuringRecovery ==
  (rec.pc = "recovered" /\ OnlySharedParameter) =>
    LET before == SelectSeq(rec.wrapper.body, LAMBDA n : n.t # "strict")
        after == rec.result.body
        np == Len(rec.result.params)
    IN IF AccessedProps = {}
       THEN rec.result.params = rec.wrapper.params /\ rec.result.body = rec.wrapper.body
       ELSE /\ Len(rec.wrapper.params) = np
            /\ \A i \in 1..(np - 1) : rec.result.params[i] = rec.wrapper.params[i]
            /\ rec.result.params[np].t = "pattern"
            /\ Len(rec.result.params[np].entries) = Cardinality(AccessedProps)
            /\ Len(after) = Len(before)
            /\ \A i \in DOMAIN before :
                 IF before[i].t = "member" /\ before[i].obj = "__shared___js"
                 THEN /\ after[i].t = "id"
                      /\ \E k \in DOMAIN rec.result.params[np].entries :
                           rec.result.params[np].entries[k] =
                             [imported |-> before[i].prop, local |-> after[i].name]
                 ELSE after[i] = before[i]

PrimaryDeduped ==
  removeOrRewriteDuplicateExternalImports(PrimaryBefore, extractExternalImports(SharedBefore)).code

\* The names the shared chunk binds by a top-level declaration or an import
SharedBound ==
  extractTopLevelDeclarations(SharedBefore) \cup {x.spec.local : x \in SpecsOf(SharedBefore)}

\* The names the deduplicated primary binds by a top-level declaration or by
\* an import that the merge does not remove (one not from the shared chunk)
PrimaryBound ==
  extractTopLevelDeclarations(PrimaryDeduped)
    \cup {x.spec.local :
            x \in {y \in SpecsOf(PrimaryDeduped) :
                     ~isSharedChunkSource(y.source, orig[analysis.sharedChunk].fileName)}}

\* The shared names the merge has renamed: a declaration of the shared chunk
\* that carries another name in the merged primary, or an import binding of
\* the shared chunk in the collision rename map
RenamedByMerge ==
  {d.name : d \in {e \in SharedBefore.decls :
                     \E f \in PrimaryNow.decls : f.b = e.b /\ f.name # e.name}}
    \cup {r.from : r \in {q \in MergeRenameMap :
                            q.from \in {x.spec.local : x \in SpecsOf(SharedBefore)}}}

\* C17: the shared merge renames a name bound in the shared chunk exactly when
\* the deduplicated primary binds it too, and with no such name the merged
\* code holds no `__shared$` name.
C17_RenameExactlyOnCollision ==
  SharedMerged =>
    /\ RenamedByMerge = SharedBound \cap PrimaryBound
    /\ (SharedBound \cap PrimaryBound = {}) =>
         NamesOf(PrimaryNow) \cap {"__shared$" \o n : n \in SharedBound} = {}

\* C18: every entry of the shared object names, by its value, the binding its
\* key exports from the shared chunk as that binding is called in the merged
\* code: `__shared_default__` for key `default`, else the declaration of the
\* exported local, under its collision rename when it has one.
C18_SharedObjectValues ==
  SharedMerged =>
    \A e \in PrimaryNow.sharedObj :
      LET b == ExportBinding(SharedBefore, orig[analysis.sharedChunk].fileName, e.key)
      IN /\ \E s \in BindingSites(PrimaryNow) : s.b = b /\ s.name = e.value
         /\ e.key = "default" => e.value = "__shared_default__"
         /\ \A r \in MergeRenameMap :
              (\E x \in extractExports(SharedBefore).exports :
                 x.exportedName = e.key /\ x.localName = r.from) => e.value = r.to

\* C18 witness: the shared object has an entry whose value is the collision
\* rename of the exported local, in a merge of a shared chunk with a default
\* export.
C18_Witness ==
  /\ SharedMerged
  /\ \E e \in PrimaryNow.sharedObj : \E r \in MergeRenameMap : e.value = r.to /\ e.key # e.value
  /\ extractExports(SharedBefore).hasDefault

\* C19: when the pass fails for a missing satellite mapping, no chunk has been
\* rewritten, no chunk has been deleted and no wrapping task has been started.
C19_ConfigValidatedAtStart ==
  error.kind = "SecondaryNotFound" =>
    /\ chunk = orig
    /\ bundle = DOMAIN orig
    /\ DOMAIN task = {}

\* The shared merge is over: there is no shared chunk or it has been merged
\* into the primary and deleted
SharedMergeOver == analysis.sharedChunk = NoChunk \/ analysis.sharedChunk \notin bundle

\* The entries that hold code inlined from an unshared chunk
TouchedByInlining ==
  {e \in EntryChunks :
     \E d \in chunk[e].code.decls :
       \E u \in Range(analysis.unsharedChunks) : d.b.src = orig[u].fileName}

\* C20: an entry holds inlined code only after the shared merge is over; a
\* wrapping task exists only after every unshared chunk has been inlined and
\* deleted, and the text it was given is the final merged text of its chunk.
C20_PhaseOrdering ==
  analysis.ok =>
    /\ TouchedByInlining # {} => SharedMergeOver
    /\ pc = "unshared" => SharedMergeOver
    /\ DOMAIN task # {} =>
         /\ SharedMergeOver
         /\ ui > Len(analysis.unsharedChunks)
         /\ \A u \in Range(analysis.unsharedChunks) : u \notin bundle
         /\ \A c \in DOMAIN task : conv[c].code = chunk[c].code

\* C20 witness: a wrapping task is pending on an entry that holds both the
\* merged shared code and code inlined from an unshared chunk.
C20_Witness ==
  /\ analysis.ok
  /\ analysis.sharedChunk # NoChunk
  /\ analysis.primaryChunk \in DOMAIN task
  /\ analysis.primaryChunk \in TouchedByInlining
  /\ chunk[analysis.primaryChunk].code # prev[analysis.primaryChunk].code

\* C21: whenever the post-processing rewrites a parameter of the wrapper, that
\* parameter is the one of the shared chunk, whatever else the satellite
\* imports and in whatever order.
C21_LastParameterIsShared ==
  (rec.pc = "recovered" /\ rec.result.params # rec.wrapper.params) =>
    /\ rec.wrapper.params # <<>>
    /\ rec.wrapper.params[Len(rec.wrapper.params)].name = ParamName(SourceOf(SharedFile))
    /\ \A i \in 1..(Len(rec.wrapper.params) - 1) : rec.result.params[i] = rec.wrapper.params[i]

\* The shared merge has run, successfully or not, on a shared chunk
MergeAttempted ==
  analysis.ok /\ analysis.sharedChunk # NoChunk /\ pc # "shared"

\* The external name an import specifier imports
ImportedName(spec) ==
  CASE spec.type = "default" -> "default"
    [] spec.type = "namespace" -> "*"
    [] OTHER -> spec.imported

\* C22: renaming the shared code with the collision rename map leaves, in
\* every import statement, the source and the imported external names as they
\* were, gives every specifier the renamed local, and leaves the statement a
\* well-formed import.
C22_ImportRenameKeepsExternalSide ==
  MergeAttempted =>
    LET before == SharedBefore.imports
        after == renameIdentifiers(SharedBefore, MergeRenameMap).imports
    IN /\ DOMAIN after = DOMAIN before
       /\ \A i \in DOMAIN before :
            /\ after[i].source = before[i].source
            /\ DOMAIN after[i].specs = DOMAIN before[i].specs
            /\ \A j \in DOMAIN before[i].specs :
                 /\ ImportedName(after[i].specs[j]) = ImportedName(before[i].specs[j])
                 /\ after[i].specs[j].local =
                      GetOr(MergeRenameMap, before[i].specs[j].local, before[i].specs[j].local)
            /\ ~before[i].bad => ~after[i].bad

\* The import specifiers of the primary whose binding the shared chunk imports
\* too: external, same source, same imported name
DuplicatedInShared ==
  {x \in SpecsOf(PrimaryBefore) :
     /\ IsExternalSource(x.source)
     /\ \E y \in SpecsOf(SharedBefore) :
          y.source = x.source /\ ImportedName(y.spec) = ImportedName(x.spec)}

RewriteInput ==
  removeOrRewriteDuplicateExternalImports(PrimaryBefore, extractExternalImports(SharedBefore)).code
RewriteTable == SharedExportToLocal(SharedBefore, MergeRenameMap)
RewriteFrom == {s \in SourcesOf(RewriteInput) : isSharedChunkSource(s, orig[analysis.sharedChunk].fileName)}
RewriteOutput ==
  removeSharedImportsAndRewriteRefs(RewriteInput, orig[analysis.sharedChunk].fileName, RewriteTable)
SharedReexports ==
  UNION {{r.specs[j] : j \in DOMAIN r.specs} :
           r \in Range(SelectSeq(RewriteInput.reexports, LAMBDA r : r.source \in RewriteFrom))}
AliasKeys ==
  {m.from : m \in NamedImportRenames(RewriteInput, RewriteFrom, RewriteTable, "__shared_default__")}

\* C24: removeSharedImportsAndRewriteRefs turns every specifier X as Y of a
\* re-export from the shared chunk into the export specifier L as Y, L being
\* the export-to-local entry of X (X itself without an entry), no re-export
\* from the shared chunk remains, and the alias renames of the pass are not
\* applied to the rewritten statement: when X is also the local alias of an
\* import from the shared chunk the specifier still reads L as Y.
C24_ReexportRewrittenOnce ==
  MergeAttempted =>
    /\ \A sp \in SharedReexports :
         [exported |-> sp.exported, local |-> GetOr(RewriteTable, sp.local, sp.local)]
           \in RewriteOutput.exportSpecs
    /\ \A sp \in SharedReexports :
         sp.local \in AliasKeys =>
           \A e \in RewriteOutput.exportSpecs :
             e.exported = sp.exported => e.local = GetOr(RewriteTable, sp.local, sp.local)
    /\ \A i \in DOMAIN RewriteOutput.reexports : RewriteOutput.reexports[i].source \notin RewriteFrom

\* A merged primary that re-exported X from the shared chunk while X was the
\* local alias of its import of the shared chunk's default export
C24_Witness ==
  /\ SharedMerged
  /\ \E sp \in SharedReexports :
       /\ sp.local \in AliasKeys
       /\ [exported |-> sp.exported, local |-> GetOr(RewriteTable, sp.local, sp.local)]
            \in PrimaryNow.exportSpecs

\* The globals of output k as the outputOptions hook captures them
CapturedGlobals(k) == IF outputs[k].options.hasGlobals THEN outputs[k].options.globals ELSE {}

\* C25: the globals map the wrapping tasks of a generateBundle pass read is
\* the map captured from the outputOptions of the same output, and all tasks
\* of the pass read the same map, whatever the interleaving of the hook
\* calls for the outputs of one plugin instance.
C25_GlobalsOfSameOutput ==
  \A k \in DOMAIN outputs :
    /\ outputs[k].passed.read => outputs[k].passed.globals = CapturedGlobals(k)
    /\ \A t \in DOMAIN outputs[k].resolved : outputs[k].resolved[t] = CapturedGlobals(k)

\* The exports an entry's current code imports by name from the shared chunk
ImportsFromSharedNow(e) == ImportedByName(chunk[e].code, orig[analysis.sharedChunk].fileName)

\* C26: after the merge phase every export name a satellite's code imports
\* from the shared chunk, the imports that came with an inlined unshared chunk
\* included, is a key of the shared object of the primary.
C26_SatelliteImportsAreKeys ==
  (MergePhaseOver /\ analysis.sharedChunk # NoChunk) =>
    \A i \in DOMAIN analysis.satelliteChunks :
      ImportsFromSharedNow(analysis.satelliteChunks[i]) \subseteq SharedKeys

\* The chunks generateBundle has deleted from the bundle
DeletedChunks == DOMAIN orig \ bundle

\* The import and re-export statements of an entry whose source is a deleted
\* chunk, a satellite's statements on the shared chunk left aside
DanglingImports(e) ==
  {st \in Range(chunk[e].code.imports) \cup Range(chunk[e].code.reexports) :
     \E c \in DeletedChunks :
       /\ st.source = SourceOf(orig[c].fileName)
       /\ ~(c = analysis.sharedChunk /\ e # analysis.primaryChunk)}

\* C27: after the merge phase no entry chunk imports from a chunk that
\* generateBundle has deleted from the bundle, except a satellite from the
\* shared chunk, in every processing order of the unshared chunks.
C27_NoImportOfDeletedChunk ==
  MergePhaseOver => \A e \in EntryChunks : DanglingImports(e) = {}

\* The exports of the shared chunk a satellite reads through a namespace
\* import of the shared chunk (ns.E)
ReadThroughNamespace(code) ==
  {u.prop : u \in {n \in code.nsUses :
     n.ns \in NamespaceNames(code, {SourceOf(orig[analysis.sharedChunk].fileName)})}}

\* C28: an export E a satellite reads as ns.E through a namespace import of
\* the shared chunk is in the set extractSharedImports returns for that
\* satellite and is a key of the shared object.
C28_NamespaceImportNeedsAll ==
  SharedMerged =>
    \A i \in DOMAIN analysis.satelliteChunks :
      LET code == orig[analysis.satelliteChunks[i]].code
      IN /\ ReadThroughNamespace(code) \subseteq extractSharedImports(code, orig[analysis.sharedChunk].fileName)
         /\ ReadThroughNamespace(code) \subseteq SharedKeys

\* The entries whose imports list names the donor's file itself
ImportersOfDonor == {e \in AllEntries : Donor.fileName \in prev[e].imports}

\* The import statements of a code on sources other than the donor
OtherImportSources(code) ==
  {st.source : st \in {t \in Range(code.imports) : t.source # SourceOf(Donor.fileName)}}

\* C29: an inlining step changes an entry only if the entry imports the
\* donor chunk itself, an entry importing only a chunk whose file name
\* contains the donor's base name stays as it is, and an importing entry
\* keeps its import statements on every other source.
C29_OnlyImportersOfDonorChange ==
  UnsharedStepDone =>
    /\ \A e \in AllEntries \ ImportersOfDonor : chunk[e].code = prev[e].code
    /\ \A e \in ImportersOfDonor :
         OtherImportSources(prev[e].code) \subseteq OtherImportSources(chunk[e].code)

\* C30: in the merged primary the name of the shared-object constant
\* (sharedProp) and the name __shared_default__ of the shared chunk's default
\* export are bound by the merge's own declaration only, never by another
\* declaration or import.
C30_IntroducedNamesAreFresh ==
  SharedMerged =>
    \A x \in BindingSites(PrimaryNow) :
      /\ (PrimaryNow.sharedObj # {} /\ x.name = options.sharedProp)
            => x.b = SharedObjectBinding(options.sharedProp)
      /\ (SharedBefore.hasDefault /\ x.name = "__shared_default__") => x.b = SharedBefore.defB

====
